---- MODULE Spec2Model ----
(***************************************************************************)
(* Model of the utility-bill synchronisation service (SAMAE water bills    *)
(* and CELESC power bills) and of the value objects it relies on.          *)
(* Texts are sequences of one-character strings, so that stripping,        *)
(* searching and formatting are computed, not assumed.                     *)
(***************************************************************************)
EXTENDS Integers, Sequences, FiniteSets, TLC

\* ------------------------------------------------------------------ texts

Digitos == {"0", "1", "2", "3", "4", "5", "6", "7", "8", "9"}

Maiusculas ==
    {"A", "B", "C", "D", "E", "F", "G", "H", "I", "J", "K", "L", "M", "N", "O", "P",
     "Q", "R", "S", "T", "U", "V", "W", "X", "Y", "Z"}

Minusculas ==
    {"a", "b", "c", "d", "e", "f", "g", "h", "i", "j", "k", "l", "m", "n", "o", "p",
     "q", "r", "s", "t", "u", "v", "w", "x", "y", "z"}

\* str.isspace for the characters of the model
IsSpace(c) == c \in {" ", "\n", "\t"}

\* \w of the re module: letters, digits and underscore
IsWord(c) == c \in Digitos \cup Maiusculas \cup Minusculas \cup {"_"}

DigitVal(c) ==
    CASE c = "0" -> 0 [] c = "1" -> 1 [] c = "2" -> 2 [] c = "3" -> 3
      [] c = "4" -> 4 [] c = "5" -> 5 [] c = "6" -> 6 [] c = "7" -> 7
      [] c = "8" -> 8 [] c = "9" -> 9

DigitChar(n) ==
    CASE n = 0 -> "0" [] n = 1 -> "1" [] n = 2 -> "2" [] n = 3 -> "3"
      [] n = 4 -> "4" [] n = 5 -> "5" [] n = 6 -> "6" [] n = 7 -> "7"
      [] n = 8 -> "8" [] n = 9 -> "9"

LowerChar(c) ==
    CASE c = "A" -> "a" [] c = "B" -> "b" [] c = "C" -> "c" [] c = "D" -> "d"
      [] c = "E" -> "e" [] c = "F" -> "f" [] c = "G" -> "g" [] c = "H" -> "h"
      [] c = "I" -> "i" [] c = "J" -> "j" [] c = "K" -> "k" [] c = "L" -> "l"
      [] c = "M" -> "m" [] c = "N" -> "n" [] c = "O" -> "o" [] c = "P" -> "p"
      [] c = "Q" -> "q" [] c = "R" -> "r" [] c = "S" -> "s" [] c = "T" -> "t"
      [] c = "U" -> "u" [] c = "V" -> "v" [] c = "W" -> "w" [] c = "X" -> "x"
      [] c = "Y" -> "y" [] c = "Z" -> "z"
      [] OTHER -> c

Lower(s) == [i \in 1..Len(s) |-> LowerChar(s[i])]

MinOf(S) == CHOOSE x \in S : \A y \in S : x <= y

MaxOf(S) == CHOOSE x \in S : \A y \in S : x >= y

\* str.strip(): leading and trailing whitespace removed
Strip(s) ==
    LET nb == {i \in 1..Len(s) : ~IsSpace(s[i])}
    IN  IF nb = {} THEN <<>> ELSE SubSeq(s, MinOf(nb), MaxOf(nb))

\* the part of s left of its trailing whitespace
RStrip(s) ==
    LET nb == {i \in 1..Len(s) : ~IsSpace(s[i])}
    IN  IF nb = {} THEN <<>> ELSE SubSeq(s, 1, MaxOf(nb))

EndsWith(s, suf) ==
    /\ Len(s) >= Len(suf)
    /\ SubSeq(s, Len(s) - Len(suf) + 1, Len(s)) = suf

AllDigits(s) == \A i \in 1..Len(s) : s[i] \in Digitos

\* int() of a digit text
RECURSIVE DigitsToNat(_)
DigitsToNat(s) ==
    IF s = <<>> THEN 0
    ELSE 10 * DigitsToNat(SubSeq(s, 1, Len(s) - 1)) + DigitVal(s[Len(s)])

\* str() of a natural number
RECURSIVE NatToDigits(_)
NatToDigits(n) ==
    IF n < 10 THEN <<DigitChar(n)>>
    ELSE NatToDigits(n \div 10) \o <<DigitChar(n % 10)>>

\* format spec 02d
Pad2(n) == IF n < 10 THEN <<"0">> \o NatToDigits(n) ELSE NatToDigits(n)

RECURSIVE Pow10(_)
Pow10(k) == IF k = 0 THEN 1 ELSE 10 * Pow10(k - 1)

Abs(n) == IF n < 0 THEN -n ELSE n

\* number of decimal digits of the coefficient
RECURSIVE NumDigits(_)
NumDigits(n) == IF n < 10 THEN 1 ELSE 1 + NumDigits(n \div 10)

\* ------------------------------------------------------- exceptions

\* classes named in the except clause of sync_from_pdfs, with FileNotFoundError
\* being a subclass of OSError
ExcecoesCapturadas == {"RuntimeError", "ValueError", "FileNotFoundError", "OSError"}

Erro(exc) == [ok |-> FALSE, exc |-> exc]

\* ------------------------------------------------------- ValorMonetario

\* decimal.Decimal values: finite coef * 10^exp, quiet NaN, signalling NaN, infinity
DecFin(coef, exp) == [cls |-> "fin", coef |-> coef, exp |-> exp]

DecNaN == [cls |-> "nan", coef |-> 0, exp |-> 0]

DecSNaN == [cls |-> "snan", coef |-> 0, exp |-> 0]

DecInf == [cls |-> "inf", coef |-> 0, exp |-> 0]

\* ROUND_HALF_EVEN of n / 10^k
RoundHalfEven(n, k) ==
    LET a == Abs(n)
        q == a \div Pow10(k)
        r == a % Pow10(k)
        metade == Pow10(k) \div 2
        qa == IF k = 0 THEN a
              ELSE IF r > metade \/ (r = metade /\ q % 2 = 1) THEN q + 1
              ELSE q
    IN  IF n < 0 THEN -qa ELSE qa

\* Decimal.quantize(Decimal("0.01")) in the default context (28 digits,
\* ROUND_HALF_EVEN): an infinity, a signalling NaN or a result wider than the
\* precision signals decimal.InvalidOperation; a quiet NaN passes through
Quantize(d) ==
    CASE d.cls = "nan" -> [ok |-> TRUE, valor |-> DecNaN]
      [] d.cls \in {"inf", "snan"} -> Erro("InvalidOperation")
      [] OTHER ->
            LET c == IF d.exp >= -2 THEN d.coef * Pow10(d.exp + 2)
                     ELSE RoundHalfEven(d.coef, -2 - d.exp)
            IN  IF NumDigits(Abs(c)) > 28 THEN Erro("InvalidOperation")
                ELSE [ok |-> TRUE, valor |-> DecFin(c, -2)]

\* re.sub(r"\s|R\$", "", texto)
RECURSIVE RemoverEspacosEMoeda(_)
RemoverEspacosEMoeda(s) ==
    IF s = <<>> THEN <<>>
    ELSE IF IsSpace(s[1]) THEN RemoverEspacosEMoeda(Tail(s))
    ELSE IF Len(s) >= 2 /\ s[1] = "R" /\ s[2] = "$"
         THEN RemoverEspacosEMoeda(SubSeq(s, 3, Len(s)))
    ELSE <<s[1]>> \o RemoverEspacosEMoeda(Tail(s))

\* str.replace(c, "")
RECURSIVE RemoverChar(_, _)
RemoverChar(s, c) ==
    IF s = <<>> THEN <<>>
    ELSE IF s[1] = c THEN RemoverChar(Tail(s), c)
    ELSE <<s[1]>> \o RemoverChar(Tail(s), c)

\* str.replace(de, para) for single characters
TrocarChar(s, de, para) == [i \in 1..Len(s) |-> IF s[i] = de THEN para ELSE s[i]]

Contem(s, c) == \E i \in 1..Len(s) : s[i] = c

\* the separator rules of from_bruto
NormalizarSeparadores(texto) ==
    IF Contem(texto, ",") /\ Contem(texto, ".")
    THEN TrocarChar(RemoverChar(texto, "."), ",", ".")
    ELSE IF Contem(texto, ",") THEN TrocarChar(texto, ",", ".")
    ELSE texto

\* Decimal(str): [sign] digits [. digits] | [sign] Inf[inity] | [sign] [s]NaN[digits];
\* anything else is a conversion syntax error (decimal.InvalidOperation)
DecimalDeTexto(s) ==
    LET temSinal == Len(s) >= 1 /\ s[1] \in {"-", "+"}
        neg == Len(s) >= 1 /\ s[1] = "-"
        r == IF temSinal THEN Tail(s) ELSE s
        lr == Lower(r)
        pontos == {i \in 1..Len(r) : r[i] = "."}
        p == IF pontos = {} THEN Len(r) + 1 ELSE MinOf(pontos)
        int == SubSeq(r, 1, p - 1)
        frac == SubSeq(r, p + 1, Len(r))
        numerico == /\ Cardinality(pontos) <= 1
                    /\ AllDigits(int) /\ AllDigits(frac)
                    /\ Len(int) + Len(frac) >= 1
        mag == DigitsToNat(int \o frac)
    IN  IF numerico
        THEN [ok |-> TRUE, valor |-> DecFin(IF neg THEN -mag ELSE mag, -Len(frac))]
        ELSE IF lr = <<"i", "n", "f">> \/ lr = <<"i", "n", "f", "i", "n", "i", "t", "y">>
        THEN [ok |-> TRUE, valor |-> DecInf]
        ELSE IF Len(lr) >= 3 /\ SubSeq(lr, 1, 3) = <<"n", "a", "n">>
                /\ AllDigits(SubSeq(lr, 4, Len(lr)))
        THEN [ok |-> TRUE, valor |-> DecNaN]
        ELSE IF Len(lr) >= 4 /\ SubSeq(lr, 1, 4) = <<"s", "n", "a", "n">>
                /\ AllDigits(SubSeq(lr, 5, Len(lr)))
        THEN [ok |-> TRUE, valor |-> DecSNaN]
        ELSE Erro("InvalidOperation")

\* raw inputs of from_bruto: a str, an int, a float (given by the Decimal its
\* repr denotes), a bool (an int for isinstance) or None
BrutoStr(t) == [tipo |-> "str", texto |-> t, n |-> 0, dec |-> DecNaN]

BrutoInt(n) == [tipo |-> "int", texto |-> <<>>, n |-> n, dec |-> DecNaN]

BrutoFloat(d) == [tipo |-> "float", texto |-> <<>>, n |-> 0, dec |-> d]

BrutoBool == [tipo |-> "bool", texto |-> <<>>, n |-> 1, dec |-> DecNaN]

BrutoNone == [tipo |-> "None", texto |-> <<>>, n |-> 0, dec |-> DecNaN]

\* ValorMonetario.__post_init__
ValorMonetarioInit(d) == Quantize(d)

\* cls(valor) on the outcome of a computation that may have raised
CriarInternoBase(q) == IF q.ok THEN ValorMonetarioInit(q.valor) ELSE q

\* the try block of from_bruto: InvalidOperation of Decimal(...) becomes
\* ValueError; the constructor call is outside the try block
ValorDeDecimal(d) == IF d.ok THEN ValorMonetarioInit(d.valor) ELSE Erro("ValueError")

\* ValorMonetario.from_bruto
FromBruto(bruto) ==
    CASE bruto.tipo = "int" -> ValorMonetarioInit(DecFin(bruto.n, 0))
      [] bruto.tipo = "float" -> ValorMonetarioInit(bruto.dec)
      [] bruto.tipo = "bool" ->
            \* Decimal(str(True)) is outside the try block
            Erro("InvalidOperation")
      [] bruto.tipo = "str" ->
            ValorDeDecimal(DecimalDeTexto(NormalizarSeparadores(
                RemoverEspacosEMoeda(Strip(bruto.texto)))))
      [] OTHER -> Erro("ValueError")

\* ValorMonetario.from_centavos: quantized, then constructed
FromCentavos(centavos) == CriarInternoBase(Quantize(DecFin(centavos, -2)))

\* ValorMonetario.to_centavos: int() of a NaN raises ValueError
ToCentavos(v) ==
    IF v.cls = "nan" THEN Erro("ValueError")
    ELSE [ok |-> TRUE, n |-> RoundHalfEven(v.coef * 100, -v.exp)]

\* Decimal + Decimal on the values of the model (no sum exceeds the precision)
DecSoma(a, b) ==
    IF a.cls = "snan" \/ b.cls = "snan" THEN Erro("InvalidOperation")
    ELSE IF a.cls = "nan" \/ b.cls = "nan" THEN [ok |-> TRUE, valor |-> DecNaN]
    ELSE IF a.cls = "inf" \/ b.cls = "inf" THEN [ok |-> TRUE, valor |-> DecInf]
    ELSE [ok |-> TRUE,
          valor |-> DecFin(a.coef * Pow10(a.exp - MinOf({a.exp, b.exp}))
                           + b.coef * Pow10(b.exp - MinOf({a.exp, b.exp})),
                           MinOf({a.exp, b.exp}))]

\* unary minus: the sign of a NaN or of an infinity does not matter here
DecNeg(d) == IF d.cls = "fin" THEN DecFin(-d.coef, d.exp) ELSE d

\* Decimal(str(delta)) of incrementar and decrementar: no separator rule, and
\* str(True), str(None) are not numbers
DecimalDeStr(delta) ==
    CASE delta.tipo = "int" -> [ok |-> TRUE, valor |-> DecFin(delta.n, 0)]
      [] delta.tipo = "float" -> [ok |-> TRUE, valor |-> delta.dec]
      [] delta.tipo = "str" -> DecimalDeTexto(delta.texto)
      [] OTHER -> Erro("InvalidOperation")

\* self.valor + d, or self.valor - d when sinal is -1, then _criar_interno
SomarECriar(valor, d, sinal) ==
    IF ~d.ok THEN d
    ELSE CriarInternoBase(DecSoma(valor, IF sinal < 0 THEN DecNeg(d.valor) ELSE d.valor))

\* Valor.incrementar
Incrementar(valor, delta) == SomarECriar(valor, DecimalDeStr(delta), 1)

\* Valor.decrementar
Decrementar(valor, delta) == SomarECriar(valor, DecimalDeStr(delta), -1)

\* Valor.esta_normalizado: a NaN is not equal to its own quantization
EstaNormalizado(valor) ==
    /\ valor.cls = "fin"
    /\ Quantize(valor).ok
    /\ (valor.exp >= -2 \/ valor.coef % Pow10(-2 - valor.exp) = 0)

\* ----------------------------------------------------- ReferenciaMensal

Atual == <<"(", "a", "t", "u", "a", "l", ")">>

\* re.sub(r"\s*\(atual\)\s*$", "", texto, flags=re.IGNORECASE)
RemoverSufixoAtual(t) ==
    LET r == RStrip(t)
    IN  IF EndsWith(Lower(r), Atual)
        THEN RStrip(SubSeq(r, 1, Len(r) - Len(Atual)))
        ELSE t

\* (\d{2})/(\d{4}) without the word boundaries
CasaEmSemFronteira(t, i) ==
    /\ i >= 1 /\ i + 6 <= Len(t)
    /\ t[i] \in Digitos /\ t[i + 1] \in Digitos
    /\ t[i + 2] = "/"
    /\ \A j \in (i + 3)..(i + 6) : t[j] \in Digitos

\* \b(\d{2})/(\d{4})\b matches at position i of t
CasaEm(t, i) ==
    /\ i >= 1 /\ i + 6 <= Len(t)
    /\ t[i] \in Digitos /\ t[i + 1] \in Digitos
    /\ t[i + 2] = "/"
    /\ \A j \in (i + 3)..(i + 6) : t[j] \in Digitos
    /\ (i = 1 \/ ~IsWord(t[i - 1]))
    /\ (i + 6 = Len(t) \/ ~IsWord(t[i + 7]))

\* re.search: the leftmost position where the pattern matches, 0 for no match
RECURSIVE BuscarMMYYYY(_, _)
BuscarMMYYYY(t, i) ==
    IF i + 6 > Len(t) THEN 0
    ELSE IF CasaEm(t, i) THEN i
    ELSE BuscarMMYYYY(t, i + 1)

\* the validation and normalization of ReferenciaMensal.__post_init__ on the
\* month and year matched
ReferenciaNormalizada(mes, ano) ==
    IF mes < 1 \/ mes > 12 THEN Erro("ValueError")
    ELSE [ok |-> TRUE,
          referencia |-> Pad2(mes) \o <<"/">> \o NatToDigits(ano),
          mes |-> mes, ano |-> ano]

\* the groups of the match at position m of texto (m = 0: no match)
ReferenciaDoMatch(texto, m) ==
    IF m = 0 THEN Erro("ValueError")
    ELSE ReferenciaNormalizada(DigitsToNat(SubSeq(texto, m, m + 1)),
                               DigitsToNat(SubSeq(texto, m + 3, m + 6)))

\* re.search on the text left by the suffix removal
ReferenciaDeTexto(texto) == ReferenciaDoMatch(texto, BuscarMMYYYY(texto, 1))

\* ReferenciaMensal.__post_init__
ReferenciaMensal(referencia) == ReferenciaDeTexto(RemoverSufixoAtual(Strip(referencia)))

\* MesReferencia.para_banco: date(ano, mes, 1); datetime.date rejects year 0
ParaBanco(ref) ==
    IF ref.ano < 1 THEN Erro("ValueError")
    ELSE [ok |-> TRUE, data |-> <<ref.ano, ref.mes, 1>>]

\* MesReferencia.criar_de_data: the constructor on f"{mes:02d}/{ano}"
CriarDeData(valor_data) ==
    ReferenciaMensal(Pad2(valor_data[2]) \o <<"/">> \o NatToDigits(valor_data[1]))

\* ------------------------------------------------------------- entities

\* Entity: id generated at construction, deleted_at unset (the empty tuple)
Entidade(id, referencia, valor) ==
    [id |-> id, referencia |-> referencia, valor |-> valor, deleted_at |-> <<>>]

\* cls(referencia=ref_vo.referencia, valor=val_vo.valor) of ContaLuz.criar
ContaLuzDe(id, ref_vo, val_vo) ==
    IF ~ref_vo.ok THEN ref_vo
    ELSE IF ~val_vo.ok THEN val_vo
    ELSE [ok |-> TRUE, conta |-> Entidade(id, ref_vo.referencia, val_vo.valor)]

\* ContaLuz.criar: the reference column holds the normalized text
ContaLuzCriar(id, mes_referencia, valor) ==
    ContaLuzDe(id, ReferenciaMensal(mes_referencia), FromBruto(valor))

\* Valor._criar_interno on the outcome of a factory of ValorMonetario
CriarInterno(normalizado) == CriarInternoBase(normalizado)

\* Valor.criar_de_bruto: from_bruto, then the internal constructor quantizes again
CriarDeBruto(bruto) == CriarInterno(FromBruto(bruto))

\* cls(referencia_data=ref_vo.para_banco(), valor=val_vo.valor) of ContaAgua.criar
ContaAguaDe(id, ref_vo, val_vo) ==
    IF ~ref_vo.ok THEN ref_vo
    ELSE IF ~val_vo.ok THEN val_vo
    ELSE IF ~ParaBanco(ref_vo).ok THEN ParaBanco(ref_vo)
    ELSE [ok |-> TRUE, conta |-> Entidade(id, ParaBanco(ref_vo).data, val_vo.valor)]

\* ContaAgua.criar: the reference column holds date(ano, mes, 1)
ContaAguaCriar(id, mes_referencia, valor) ==
    ContaAguaDe(id, ReferenciaMensal(mes_referencia), CriarDeBruto(valor))

\* ContaAgua.referencia (property): f"{month:02d}/{year}"
ReferenciaAgua(data) == Pad2(data[2]) \o <<"/">> \o NatToDigits(data[1])

\* the reference text of an entity of either service
ReferenciaDe(svc, conta) ==
    IF svc = "agua" THEN ReferenciaAgua(conta.referencia) ELSE conta.referencia

\* ------------------------------------------------------------ documents

MaxDocs == 2

MaxRodadas == 2

T0925 == <<"0", "9", "/", "2", "0", "2", "5">>

T0825 == <<"0", "8", "/", "2", "0", "2", "5">>

T0925Atual == T0925 \o <<" ", "(", "A", "t", "u", "a", "l", ")">>

T0825Atual == T0825 \o <<" ", "(", "A", "t", "u", "a", "l", ")">>

V4220 == <<"4", "2", ",", "2", "0">>

V3910 == <<"3", "9", ",", "1", "0">>

V123456 == <<"R", "$", " ", "1", ".", "2", "3", "4", ",", "5", "6">>

VAbc == <<"a", "b", "c">>

VInf == <<"i", "n", "f">>

Linha(ref, valor) == [Referencia |-> ref, Valor |-> valor]

\* what the table extraction of one PDF gives: the exception raised while loading
\* or locating the table ("nenhuma" for none), the shape of the located raw
\* table (row count, index of its header row or -1) and its canonical rows
Doc(falha, n, cab, linhas) ==
    [falha |-> falha, nLinhas |-> n, cabecalho |-> cab, linhas |-> linhas]

ArquivosAgua == {"a1.pdf", "a2.pdf", "b.pdf", "abc.pdf", "inf.pdf"}

ArquivosLuz == {"l1.pdf", "l2.pdf", "ausente.pdf", "curta.pdf"}

Arquivos(svc) == IF svc = "agua" THEN ArquivosAgua ELSE ArquivosLuz

\* the content of each path of the model; the water extractor always writes
\* the reference as "MM/YYYY (Atual)"
Documento(caminho) ==
    CASE caminho = "a1.pdf" -> Doc("nenhuma", 3, 0, <<Linha(T0925Atual, V4220)>>)
      [] caminho = "a2.pdf" -> Doc("nenhuma", 3, 0, <<Linha(T0925Atual, V123456)>>)
      [] caminho = "b.pdf" -> Doc("nenhuma", 3, 0, <<Linha(T0825Atual, V3910)>>)
      [] caminho = "abc.pdf" -> Doc("nenhuma", 3, 0, <<Linha(T0925Atual, VAbc)>>)
      [] caminho = "inf.pdf" -> Doc("nenhuma", 3, 0, <<Linha(T0825Atual, VInf)>>)
      [] caminho = "l1.pdf" ->
            Doc("nenhuma", 3, 0, <<Linha(T0925, V123456), Linha(T0825, V3910)>>)
      [] caminho = "l2.pdf" ->
            Doc("nenhuma", 3, 0, <<Linha(T0925, V4220), Linha(T0925, V3910)>>)
      [] caminho = "ausente.pdf" -> Doc("FileNotFoundError", 0, -1, <<>>)
      [] caminho = "curta.pdf" -> Doc("nenhuma", 1, 0, <<>>)

\* SamaeExtrator on one document: the loading failure, or the current row
TabelaSamae(doc) ==
    IF doc.falha # "nenhuma" THEN Erro(doc.falha) ELSE [ok |-> TRUE, df |-> doc.linhas]

\* obter_tabela_samae
ObterTabelaSamae(caminho) == TabelaSamae(Documento(caminho))

\* a factory outcome as the list of entities of one document
UmaConta(c) == IF c.ok THEN [ok |-> TRUE, contas |-> <<c.conta>>] ELSE c

\* the try block of ContaAguaSyncService.sync_from_pdfs on the table t: the
\* first row becomes one ContaAgua
ContaDaTabela(t, id) ==
    IF ~t.ok THEN t
    ELSE IF t.df = <<>> THEN Erro("ValueError")
    ELSE UmaConta(ContaAguaCriar(id, t.df[1].Referencia, BrutoStr(t.df[1].Valor)))

\* the body of the try block of ContaAguaSyncService.sync_from_pdfs for one path
ExtrairAgua(caminho, id) == ContaDaTabela(ObterTabelaSamae(caminho), id)

\* the detection without the check that a row follows the header
DetectarIndicesSemLinhaSeguinte(n, cab) ==
    IF cab >= 0 THEN <<cab, cab + 1>> ELSE <<4, 5>>

\* CelescExtrator._detectar_indices_cabecalho_e_dados
DetectarIndicesCabecalhoEDados(n, cab) ==
    IF cab >= 0 /\ cab + 1 < n THEN <<cab, cab + 1>> ELSE <<4, 5>>

\* CelescExtrator._aplicar_cabecalho_da_linha: iloc past the last row raises
AplicarCabecalhoDaLinha(n, indice_cabecalho) ==
    IF indice_cabecalho >= n THEN Erro("IndexError") ELSE [ok |-> TRUE]

\* CelescExtrator._extrair and _montar_tabela_celesc on one document: the
\* loading failure, the header step, or the rows
MontarTabelaCelesc(doc) ==
    IF doc.falha # "nenhuma" THEN Erro(doc.falha)
    ELSE IF ~AplicarCabecalhoDaLinha(doc.nLinhas,
                DetectarIndicesCabecalhoEDados(doc.nLinhas, doc.cabecalho)[1]).ok
    THEN Erro("IndexError")
    ELSE [ok |-> TRUE, df |-> doc.linhas]

\* obter_tabela_celesc
ObterTabelaCelesc(caminho) == MontarTabelaCelesc(Documento(caminho))

\* the entities of the rows so far, then the entity of the next row
JuntarContas(c, resto) ==
    IF ~c.ok THEN c
    ELSE IF ~resto.ok THEN resto
    ELSE [ok |-> TRUE, contas |-> <<c.conta>> \o resto.contas]

\* one ContaLuz per row, in row order; the first invalid row raises
RECURSIVE CriarContasLuz(_, _)
CriarContasLuz(linhas, id) ==
    IF linhas = <<>> THEN [ok |-> TRUE, contas |-> <<>>]
    ELSE JuntarContas(
            ContaLuzCriar(id, linhas[1].Referencia, BrutoStr(linhas[1].Valor)),
            CriarContasLuz(Tail(linhas), id + 1))

\* the entities of the table t
ContasDaTabela(t, id) == IF ~t.ok THEN t ELSE CriarContasLuz(t.df, id)

\* extrair_contas_luz
ExtrairContasLuz(caminho, id) == ContasDaTabela(ObterTabelaCelesc(caminho), id)

\* the extraction step of the loop body of sync_from_pdfs
Extrair(svc, caminho, id) ==
    IF svc = "agua" THEN ExtrairAgua(caminho, id) ELSE ExtrairContasLuz(caminho, id)

\* ---------------------------------------------------------- persistence

\* list_existing_references without the filter on deleted_at
ListExistingReferencesComApagadas(svc, tabela) ==
    {ReferenciaDe(svc, tabela[i]) : i \in 1..Len(tabela)}

\* list_existing_references that finds no row
ListExistingReferencesVazia(svc, tabela) == {}

\* list_existing_references: the reference texts of the rows not soft-deleted
ListExistingReferences(svc, tabela) ==
    {ReferenciaDe(svc, tabela[i]) : i \in {j \in 1..Len(tabela) : tabela[j].deleted_at = <<>>}}

\* a call made by sync_from_pdfs: the repository method or the extraction,
\* with the position of the path or the number of entities handed over
Chamada(op, n) == [op |-> op, n |-> n]

\* add_many: session.add_all queues the entities; the count queued is returned
AddMany(fila, contas) == [fila |-> fila \o contas, count |-> Len(contas)]

\* session.commit(): the queued entities are inserted
SessionCommit(tabela, fila) == tabela \o fila

\* a rollback that flushes the queued entities
SessionRollbackQueGrava(tabela, fila) == tabela \o fila

\* session.rollback(): the queued entities are discarded
SessionRollback(tabela, fila) == tabela

\* --------------------------------------------------------- sync service

\* a dict assignment that keeps the entity already stored under the key
DictSetPrimeiroVence(d, chave, conta) ==
    IF \E i \in 1..Len(d) : d[i].chave = chave THEN d
    ELSE Append(d, [chave |-> chave, conta |-> conta])

\* a dict assignment that moves an overwritten key to the end
DictSetMoveParaOFim(d, chave, conta) ==
    Append(SelectSeq(d, LAMBDA e : e.chave # chave), [chave |-> chave, conta |-> conta])

\* a dict assignment that always adds an entry
DictSetQueAcrescenta(d, chave, conta) == Append(d, [chave |-> chave, conta |-> conta])

\* referencias_coletadas[chave] = conta on an insertion-ordered dict
DictSet(d, chave, conta) ==
    IF \E i \in 1..Len(d) : d[i].chave = chave
    THEN [i \in 1..Len(d) |-> IF d[i].chave = chave
                              THEN [chave |-> chave, conta |-> conta] ELSE d[i]]
    ELSE Append(d, [chave |-> chave, conta |-> conta])

\* the loop over the entities of one document
RECURSIVE Coletar(_, _, _)
Coletar(svc, d, contas) ==
    IF contas = <<>> THEN d
    ELSE Coletar(svc, DictSet(d, ReferenciaDe(svc, contas[1]), contas[1]), Tail(contas))

\* referencias_novas without the membership test
ReferenciasNovasSemFiltro(d, conhecidas) == [i \in 1..Len(d) |-> d[i].chave]

\* referencias_novas: the keys not in referencias_existentes, in dict order
ReferenciasNovas(d, conhecidas) ==
    LET chaves == [i \in 1..Len(d) |-> d[i].chave]
    IN  SelectSeq(chaves, LAMBDA k : k \notin conhecidas)

\* referencias_coletadas[ref]
DictGet(d, chave) == d[CHOOSE i \in 1..Len(d) : d[i].chave = chave].conta

\* contas_para_inserir
ContasParaInserir(d, novas) == [i \in 1..Len(novas) |-> DictGet(d, novas[i])]

\* the summary dict
Resumo(pdf_paths, arquivos_com_falha, total_linhas, d, inseridos, novas) ==
    [pdf_count |-> Len(pdf_paths),
     files_processed |-> Len(pdf_paths) - Len(arquivos_com_falha),
     files_failed |-> Len(arquivos_com_falha),
     failed_files |-> arquivos_com_falha,
     rows_parsed |-> total_linhas,
     distinct_references_found |-> Len(d),
     created |-> inseridos,
     skipped |-> Len(d) - inseridos,
     created_references |-> novas]

ResumoVazio == Resumo(<<>>, <<>>, 0, <<>>, 0, <<>>)

\* ---------------------------------------------------------------- state

VARIABLES
    servico,     \* "agua" (ContaAguaSyncService) or "luz" (ContaLuzSyncService)
    loja,        \* committed rows of the service's table, in insertion order
    proxId,      \* next identity handed to a new entity
    pc,          \* "ocioso", "listar", "extrair", "retornou", "erro"
    lote,        \* pdf_paths of the current call
    idx,         \* position of the loop over pdf_paths
    existentes,  \* referencias_existentes
    coletadas,   \* referencias_coletadas
    linhas,      \* total_linhas_extraidas
    falhas,      \* arquivos_com_falha
    fila,        \* entities queued in the session by add_all
    resumo,      \* the summary returned by the call
    retornou,    \* the call returned its summary
    excecao,     \* exception that left sync_from_pdfs, "nenhuma" for none
    desfecho,    \* "aberta", "commit" or "rollback": how the session ended
    lojaAntes,   \* the table when the session was opened
    anterior,    \* the previous call, when it was committed on the same lote
    rodadas,     \* number of sync calls started
    chamadas,    \* the calls of the current run on the repository and the extractor, in order
    entradaBruta,   \* the raw amount handed to the factories of Valor
    centavosBanco,  \* the integer of cents handed to criar_de_centavos
    valores,        \* the Valor instances alive, in creation order
    ultima,         \* the last operation on a Valor and its outcome
    textoRef,       \* the text handed to ReferenciaMensal
    refVO,          \* the outcome of the construction of ReferenciaMensal
    dataBanco,      \* the outcome of para_banco on the reference constructed
    textoData,      \* the text handed to NormalizarData
    dataVO,         \* the outcome of the construction of NormalizarData
    busca,   \* the tables, keywords and flags handed to the table locator
    encontrada,  \* the outcome of localizar_tabela_com_palavras_chave
    tabelaSamae,   \* the table handed to SamaeExtrator._montar_linha_atual
    linhaAtual,  \* the outcome of _montar_linha_atual
    tabelaBruta,   \* the raw table handed to CelescExtrator._montar_tabela_celesc
    tabelaFinal,  \* the outcome of _montar_tabela_celesc
    relogio,   \* the reading of datetime.now(timezone.utc)
    entidades,   \* the entities alive, in creation order
    sessao,   \* the positions of the entities that are rows of the session
    ultimaOp,  \* the last operation on an entity, its target before it and its outcome
    envios,   \* the uploads of the request, each with its kind
    etapa,   \* the position of the upload request in its handler
    posicao,   \* the position of the loop over the uploads or over the temporary paths
    caminhosTemporarios,   \* caminhos_temporarios
    arquivosInvalidos,   \* arquivos_invalidos
    disco,   \* the temporary files that exist
    eventos,   \* what the request did to temporary files and when the sync ran, in order
    resultadoSync,   \* how the sync call ended
    resposta,  \* the status the request answers with, 0 while it runs
    tabelasPdf,   \* the tables read from the PDF of a water bill, in order
    valorAtual,  \* outcome of SamaeExtrator._extrair_valor_atual on them
    servicoConc,   \* the service both concurrent requests call
    tabelaConc,   \* committed rows of the table the concurrent sessions share
    sessoes   \* the two sessions: position, batch, known references and queued entities

varsSync == <<servico, loja, proxId, pc, lote, idx, existentes, coletadas, linhas,
              falhas, fila, resumo, retornou, excecao, desfecho, lojaAntes,
              anterior, rodadas, chamadas>>

varsValor == <<entradaBruta, centavosBanco, valores, ultima>>

varsRef == <<textoRef, refVO, dataBanco>>

varsData == <<textoData, dataVO>>

varsLoc == <<busca, encontrada>>

varsSamae == <<tabelaSamae, linhaAtual>>

varsCelesc == <<tabelaBruta, tabelaFinal>>

varsEnt == <<relogio, entidades, sessao, ultimaOp>>

varsUpload == <<envios, etapa, posicao, caminhosTemporarios, arquivosInvalidos, disco, eventos, resultadoSync, resposta>>

varsHist == <<tabelasPdf, valorAtual>>

varsConc == <<servicoConc, tabelaConc, sessoes>>

vars == <<varsSync, varsValor, varsRef, varsData, varsLoc, varsSamae, varsCelesc, varsEnt, varsUpload, varsHist, varsConc>>

\* no operation on a Valor yet
SemOperacao ==
    [op |-> "nenhuma", alvo |-> 0, antes |-> DecNaN, ok |-> TRUE, exc |-> "nenhuma",
     res |-> DecNaN, n |-> 0, origem |-> 0]

\* no Valor under test
ValorParado ==
    /\ entradaBruta = BrutoNone
    /\ centavosBanco = 0
    /\ valores = <<>>
    /\ ultima = SemOperacao

\* no ReferenciaMensal under test
RefParada ==
    /\ textoRef = <<>>
    /\ refVO = [feito |-> FALSE, r |-> Erro("nenhuma")]
    /\ dataBanco = [feito |-> FALSE, r |-> Erro("nenhuma")]

\* no NormalizarData under test
DataParada ==
    /\ textoData = <<>>
    /\ dataVO = [feito |-> FALSE, r |-> Erro("nenhuma")]

\* no table search under test
LocParada ==
    /\ busca = [tabelas |-> <<>>, palavras_chave |-> <<>>, normalizar |-> TRUE,
                exigir_todas |-> TRUE]
    /\ encontrada = [feito |-> FALSE, indice |-> 0]

\* no water table under test
SamaeParada ==
    /\ tabelaSamae = [colunas |-> <<>>, linhas |-> <<>>]
    /\ linhaAtual = [feito |-> FALSE, r |-> Erro("nenhuma")]

\* no electricity table under test
CelescParada ==
    /\ tabelaBruta = [colunas |-> <<>>, linhas |-> <<>>]
    /\ tabelaFinal = [feito |-> FALSE, indices |-> <<0, 0>>, consumidas |-> <<>>,
                   r |-> Erro("nenhuma")]

EntParada ==
    /\ relogio = 0
    /\ entidades = <<>>
    /\ sessao = {}
    /\ ultimaOp = [op |-> "nenhuma"]

UploadParado ==
    /\ envios = <<>>
    /\ etapa = "parado"
    /\ posicao = 0
    /\ caminhosTemporarios = <<>>
    /\ arquivosInvalidos = <<>>
    /\ disco = {}
    /\ eventos = <<>>
    /\ resultadoSync = "nenhum"
    /\ resposta = 0

HistParado ==
    /\ tabelasPdf = <<>>
    /\ valorAtual = [feito |-> FALSE, escolhida |-> 0, r |-> Erro("nenhuma")]

\* a session not opened yet
SessaoFechada == [pc |-> "fechada", lote |-> <<>>, existentes |-> {}, fila |-> <<>>]

ConcParada ==
    /\ servicoConc = "agua"
    /\ tabelaConc = <<>>
    /\ sessoes = [s \in {1, 2} |-> SessaoFechada]

\* batches of at most MaxDocs paths
Lotes(svc) == UNION {[1..n -> Arquivos(svc)] : n \in 0..MaxDocs}

\* no committed call to compare the next one with
SemAnterior ==
    [valido |-> FALSE, lote |-> <<>>, resumo |-> ResumoVazio, existentes |-> {},
     chaves |-> {}]

\* a persisted row built by the factory of the service
LinhaPersistida(svc, id, ref, valor, deleted_at) ==
    [(IF svc = "agua" THEN ContaAguaCriar(id, ref, BrutoStr(valor))
      ELSE ContaLuzCriar(id, ref, BrutoStr(valor))).conta EXCEPT !.deleted_at = deleted_at]

\* the tables made of some of the given rows, in their order
TabelasDe(viva, apagada) == {<<>>, <<viva>>, <<apagada>>, <<viva, apagada>>}

\* the tables the service may find: empty, a live row for 09/2025, a
\* soft-deleted row for 08/2025, or both
LojasIniciais(svc) ==
    TabelasDe(LinhaPersistida(svc, 1, T0925, V3910, <<>>),
              LinhaPersistida(svc, 2, T0825, V4220, <<1>>))

\* Entity.id (uuid7): an identity no persisted row has; the least one is taken
ProximoId(tabela) == MaxOf({0} \cup {tabela[i].id : i \in 1..Len(tabela)}) + 1

Init ==
    /\ servico \in {"agua", "luz"}
    /\ loja \in LojasIniciais(servico)
    /\ proxId = ProximoId(loja)
    /\ pc = "ocioso"
    /\ lote = <<>>
    /\ idx = 1
    /\ existentes = {}
    /\ coletadas = <<>>
    /\ linhas = 0
    /\ falhas = <<>>
    /\ fila = <<>>
    /\ resumo = ResumoVazio
    /\ retornou = FALSE
    /\ excecao = "nenhuma"
    /\ desfecho = "aberta"
    /\ lojaAntes = loja
    /\ anterior = SemAnterior
    /\ rodadas = 0
    /\ chamadas = <<>>
    /\ ValorParado
    /\ RefParada
    /\ DataParada
    /\ LocParada
    /\ SamaeParada
    /\ CelescParada
    /\ EntParada
    /\ UploadParado
    /\ HistParado
    /\ ConcParada

\* an endpoint opens a session (get_database_session) and calls sync_from_pdfs
IniciarSync(b) ==
    /\ pc = "ocioso"
    /\ rodadas < MaxRodadas
    /\ pc' = "listar"
    /\ lote' = b
    /\ idx' = 1
    /\ existentes' = {}
    /\ coletadas' = <<>>
    /\ linhas' = 0
    /\ falhas' = <<>>
    /\ fila' = <<>>
    /\ resumo' = ResumoVazio
    /\ retornou' = FALSE
    /\ excecao' = "nenhuma"
    /\ desfecho' = "aberta"
    /\ lojaAntes' = loja
    /\ anterior' = IF anterior.valido /\ b = anterior.lote THEN anterior ELSE SemAnterior
    /\ rodadas' = rodadas + 1
    /\ chamadas' = <<>>
    /\ proxId' = ProximoId(loja)
    /\ UNCHANGED <<servico, loja>>
    /\ UNCHANGED <<varsValor, varsRef, varsData, varsLoc, varsSamae, varsCelesc, varsEnt, varsUpload, varsHist, varsConc>>

\* referencias_existentes = self.repository.list_existing_references(); a
\* persistence error leaves the call
Listar ==
    /\ pc = "listar"
    /\ \/ /\ existentes' = ListExistingReferences(servico, loja)
          /\ pc' = "extrair"
          /\ UNCHANGED excecao
       \/ /\ excecao' = "OperationalError"
          /\ pc' = "erro"
          /\ UNCHANGED existentes
    /\ chamadas' = Append(chamadas, Chamada("list_existing_references", 0))
    /\ UNCHANGED <<servico, loja, proxId, lote, idx, coletadas, linhas, falhas,
                   fila, resumo, retornou, desfecho, lojaAntes, anterior, rodadas>>
    /\ UNCHANGED <<varsValor, varsRef, varsData, varsLoc, varsSamae, varsCelesc, varsEnt, varsUpload, varsHist, varsConc>>

\* one iteration of the loop over pdf_paths
ProcessarPdf ==
    /\ pc = "extrair"
    /\ idx <= Len(lote)
    /\ \E r \in {Extrair(servico, lote[idx], proxId)} :
           \/ /\ r.ok
              /\ coletadas' = Coletar(servico, coletadas, r.contas)
              /\ linhas' = linhas + Len(r.contas)
              /\ proxId' = proxId + Len(r.contas)
              /\ idx' = idx + 1
              /\ UNCHANGED <<falhas, pc, excecao>>
           \/ /\ ~r.ok
              /\ r.exc \in ExcecoesCapturadas
              /\ falhas' = Append(falhas, lote[idx])
              /\ idx' = idx + 1
              /\ UNCHANGED <<coletadas, linhas, proxId, pc, excecao>>
           \/ /\ ~r.ok
              /\ r.exc \notin ExcecoesCapturadas
              /\ excecao' = r.exc
              /\ pc' = "erro"
              /\ UNCHANGED <<coletadas, linhas, proxId, falhas, idx>>
    /\ chamadas' = Append(chamadas, Chamada("extrair", idx))
    /\ UNCHANGED <<servico, loja, lote, existentes, fila, resumo, retornou,
                   desfecho, lojaAntes, anterior, rodadas>>
    /\ UNCHANGED <<varsValor, varsRef, varsData, varsLoc, varsSamae, varsCelesc, varsEnt, varsUpload, varsHist, varsConc>>

\* the end of the run with add_many called whatever the collection holds
FinalizarSemGuarda ==
    /\ pc = "extrair"
    /\ idx > Len(lote)
    /\ \E novas \in {ReferenciasNovas(coletadas, existentes)} :
       \E inserir \in {ContasParaInserir(coletadas, novas)} :
       \E r \in {AddMany(fila, inserir)} :
           \/ /\ fila' = IF inserir # <<>> THEN r.fila ELSE fila
              /\ chamadas' = Append(chamadas, Chamada("add_many", Len(inserir)))
              /\ resumo' = Resumo(lote, falhas, linhas, coletadas,
                                  IF inserir # <<>> THEN r.count ELSE 0, novas)
              /\ retornou' = TRUE
              /\ pc' = "retornou"
              /\ UNCHANGED excecao
           \/ /\ inserir # <<>>
              /\ \E k \in 0..(Len(inserir) - 1) : fila' = fila \o SubSeq(inserir, 1, k)
              /\ chamadas' = Append(chamadas, Chamada("add_many", Len(inserir)))
              /\ excecao' = "OperationalError"
              /\ pc' = "erro"
              /\ UNCHANGED <<resumo, retornou>>
    /\ UNCHANGED <<servico, loja, proxId, lote, idx, existentes, coletadas,
                   linhas, falhas, desfecho, lojaAntes, anterior, rodadas>>
    /\ UNCHANGED <<varsValor, varsRef, varsData, varsLoc, varsSamae, varsCelesc, varsEnt, varsUpload, varsHist, varsConc>>

\* after the loop: the new references, add_many when there is any, the summary.
\* add_all queues entity by entity, so a failing add_many leaves a prefix queued
Finalizar ==
    /\ pc = "extrair"
    /\ idx > Len(lote)
    /\ \E novas \in {ReferenciasNovas(coletadas, existentes)} :
       \E inserir \in {ContasParaInserir(coletadas, novas)} :
       \E r \in {AddMany(fila, inserir)} :
           \/ /\ fila' = IF inserir # <<>> THEN r.fila ELSE fila
              /\ chamadas' = IF inserir # <<>>
                             THEN Append(chamadas, Chamada("add_many", Len(inserir)))
                             ELSE chamadas
              /\ resumo' = Resumo(lote, falhas, linhas, coletadas,
                                  IF inserir # <<>> THEN r.count ELSE 0, novas)
              /\ retornou' = TRUE
              /\ pc' = "retornou"
              /\ UNCHANGED excecao
           \/ /\ inserir # <<>>
              /\ \E k \in 0..(Len(inserir) - 1) : fila' = fila \o SubSeq(inserir, 1, k)
              /\ chamadas' = Append(chamadas, Chamada("add_many", Len(inserir)))
              /\ excecao' = "OperationalError"
              /\ pc' = "erro"
              /\ UNCHANGED <<resumo, retornou>>
    /\ UNCHANGED <<servico, loja, proxId, lote, idx, existentes, coletadas,
                   linhas, falhas, desfecho, lojaAntes, anterior, rodadas>>
    /\ UNCHANGED <<varsValor, varsRef, varsData, varsLoc, varsSamae, varsCelesc, varsEnt, varsUpload, varsHist, varsConc>>

\* the locals of the call go out of scope when the request ends
FimDaChamada ==
    /\ lote' = <<>>
    /\ idx' = 1
    /\ existentes' = {}
    /\ coletadas' = <<>>
    /\ linhas' = 0
    /\ falhas' = <<>>
    /\ resumo' = ResumoVazio
    /\ fila' = <<>>
    /\ pc' = "ocioso"

\* the with block ends normally: session.commit(), and rollback with the
\* exception re-raised when the commit fails
Commit ==
    /\ pc = "retornou"
    /\ \/ /\ loja' = SessionCommit(loja, fila)
          /\ desfecho' = "commit"
          /\ anterior' = [valido |-> TRUE, lote |-> lote, resumo |-> resumo,
                          existentes |-> existentes,
                          chaves |-> {coletadas[i].chave : i \in 1..Len(coletadas)}]
          /\ UNCHANGED excecao
       \/ /\ loja' = SessionRollback(loja, fila)
          /\ desfecho' = "rollback"
          /\ anterior' = SemAnterior
          /\ excecao' = "OperationalError"
    /\ FimDaChamada
    /\ UNCHANGED <<servico, proxId, retornou, lojaAntes, rodadas, chamadas>>
    /\ UNCHANGED <<varsValor, varsRef, varsData, varsLoc, varsSamae, varsCelesc, varsEnt, varsUpload, varsHist, varsConc>>

\* the with block ends by an exception: session.rollback(), close, re-raise
Rollback ==
    /\ pc = "erro"
    /\ loja' = SessionRollback(loja, fila)
    /\ desfecho' = "rollback"
    /\ anterior' = SemAnterior
    /\ FimDaChamada
    /\ UNCHANGED <<servico, proxId, retornou, excecao, lojaAntes, rodadas, chamadas>>
    /\ UNCHANGED <<varsValor, varsRef, varsData, varsLoc, varsSamae, varsCelesc, varsEnt, varsUpload, varsHist, varsConc>>

Next ==
    \/ \E b \in Lotes(servico) : IniciarSync(b)
    \/ Listar
    \/ ProcessarPdf
    \/ Finalizar
    \/ Commit
    \/ Rollback

Spec == Init /\ [][Next]_vars

\* ------------------------------------------------- operations on Valor

MaxValores == 3

V1005 == <<"1", ",", "0", "0", "5">>

VNaN == <<"N", "a", "N">>

\* the raw amounts offered to the factories
Brutos ==
    {BrutoStr(V123456), BrutoStr(V4220), BrutoStr(V1005), BrutoStr(VAbc),
     BrutoStr(VInf), BrutoStr(VNaN), BrutoStr(<<>>), BrutoInt(5), BrutoInt(-3),
     BrutoFloat(DecFin(125, -3)), BrutoBool, BrutoNone}

\* the integers of cents offered to criar_de_centavos
Centavos == {-1, 0, 987}

\* the deltas offered to incrementar and decrementar
Deltas == {BrutoInt(1), BrutoFloat(DecFin(5, -3)), BrutoFloat(DecNaN)}

\* the instance returned by a factory or an operation joins the live ones
Guardar(objs, r, de, c) ==
    IF r.ok THEN Append(objs, [valor |-> r.valor, de |-> de, c |-> c]) ELSE objs

\* the record of an operation that returns a Valor or raises
Resultado(op, alvo, antes, r, origem) ==
    [op |-> op, alvo |-> alvo, antes |-> antes, ok |-> r.ok,
     exc |-> IF r.ok THEN "nenhuma" ELSE r.exc,
     res |-> IF r.ok THEN r.valor ELSE DecNaN, n |-> 0, origem |-> origem]

\* the record of para_banco, which returns an int or raises
ResultadoInteiro(alvo, antes, r) ==
    [op |-> "para_banco", alvo |-> alvo, antes |-> antes, ok |-> r.ok,
     exc |-> IF r.ok THEN "nenhuma" ELSE r.exc,
     res |-> DecNaN, n |-> IF r.ok THEN r.n ELSE 0, origem |-> 0]

\* no sync service in use: the value objects are exercised on their own
SyncParado ==
    /\ servico = "agua"
    /\ loja = <<>>
    /\ proxId = 1
    /\ pc = "ocioso"
    /\ lote = <<>>
    /\ idx = 1
    /\ existentes = {}
    /\ coletadas = <<>>
    /\ linhas = 0
    /\ falhas = <<>>
    /\ fila = <<>>
    /\ resumo = ResumoVazio
    /\ retornou = FALSE
    /\ excecao = "nenhuma"
    /\ desfecho = "aberta"
    /\ lojaAntes = <<>>
    /\ anterior = SemAnterior
    /\ rodadas = 0
    /\ chamadas = <<>>

InitValor ==
    /\ SyncParado
    /\ entradaBruta \in Brutos
    /\ centavosBanco \in Centavos
    /\ valores = <<>>
    /\ ultima = SemOperacao
    /\ RefParada
    /\ DataParada
    /\ LocParada
    /\ SamaeParada
    /\ CelescParada
    /\ EntParada
    /\ UploadParado
    /\ HistParado
    /\ ConcParada

\* Valor.criar_de_bruto(entradaBruta)
CriarDeBrutoAc ==
    /\ Len(valores) < MaxValores
    /\ \E r \in {CriarDeBruto(entradaBruta)} :
        /\ valores' = Guardar(valores, r, "bruto", 0)
        /\ ultima' = Resultado("criar_de_bruto", 0, DecNaN, r, 0)
    /\ UNCHANGED <<entradaBruta, centavosBanco, varsSync, varsRef, varsData, varsLoc, varsSamae, varsCelesc, varsEnt, varsUpload, varsHist, varsConc>>

\* Valor.criar_de_centavos(centavosBanco), which is also Valor.do_banco; origem
\* is the instance whose para_banco gave the integer, when the last operation
\* was that one
CriarDeCentavosAc ==
    /\ Len(valores) < MaxValores
    /\ \E r \in {CriarInterno(FromCentavos(centavosBanco))} :
        /\ valores' = Guardar(valores, r, "centavos", centavosBanco)
        /\ ultima' = Resultado("criar_de_centavos", 0, DecNaN, r,
                               IF ultima.op = "para_banco" /\ ultima.ok
                               THEN ultima.alvo ELSE 0)
    /\ UNCHANGED <<entradaBruta, centavosBanco, varsSync, varsRef, varsData, varsLoc, varsSamae, varsCelesc, varsEnt, varsUpload, varsHist, varsConc>>

\* Valor.para_banco() = to_centavos() on the instance i
ParaBancoAc(i) ==
    /\ ultima.op # "para_banco"
    /\ \E r \in {ToCentavos(valores[i].valor)} :
        /\ ultima' = ResultadoInteiro(i, valores[i].valor, r)
        /\ centavosBanco' = IF r.ok THEN r.n ELSE centavosBanco
    /\ UNCHANGED <<entradaBruta, valores, varsSync, varsRef, varsData, varsLoc, varsSamae, varsCelesc, varsEnt, varsUpload, varsHist, varsConc>>

\* Valor.incrementar(delta) on the instance i
IncrementarAc(i, delta) ==
    /\ Len(valores) < MaxValores
    /\ \E r \in {Incrementar(valores[i].valor, delta)} :
        /\ valores' = Guardar(valores, r, "operacao", 0)
        /\ ultima' = Resultado("incrementar", i, valores[i].valor, r, 0)
    /\ UNCHANGED <<entradaBruta, centavosBanco, varsSync, varsRef, varsData, varsLoc, varsSamae, varsCelesc, varsEnt, varsUpload, varsHist, varsConc>>

\* Valor.decrementar(delta) on the instance i
DecrementarAc(i, delta) ==
    /\ Len(valores) < MaxValores
    /\ \E r \in {Decrementar(valores[i].valor, delta)} :
        /\ valores' = Guardar(valores, r, "operacao", 0)
        /\ ultima' = Resultado("decrementar", i, valores[i].valor, r, 0)
    /\ UNCHANGED <<entradaBruta, centavosBanco, varsSync, varsRef, varsData, varsLoc, varsSamae, varsCelesc, varsEnt, varsUpload, varsHist, varsConc>>

\* Valor.atualizar_valor(entradaBruta) on the instance i
AtualizarValorAc(i) ==
    /\ Len(valores) < MaxValores
    /\ \E r \in {CriarDeBruto(entradaBruta)} :
        /\ valores' = Guardar(valores, r, "bruto", 0)
        /\ ultima' = Resultado("atualizar_valor", i, valores[i].valor, r, 0)
    /\ UNCHANGED <<entradaBruta, centavosBanco, varsSync, varsRef, varsData, varsLoc, varsSamae, varsCelesc, varsEnt, varsUpload, varsHist, varsConc>>

NextValor ==
    \/ CriarDeBrutoAc
    \/ CriarDeCentavosAc
    \/ \E i \in 1..Len(valores) : ParaBancoAc(i)
    \/ \E i \in 1..Len(valores) : \E delta \in Deltas : IncrementarAc(i, delta)
    \/ \E i \in 1..Len(valores) : \E delta \in Deltas : DecrementarAc(i, delta)
    \/ \E i \in 1..Len(valores) : AtualizarValorAc(i)

SpecValor == InitValor /\ [][NextValor]_vars

\* ---------------------------------------- construction of ReferenciaMensal

\* what may precede the month/year in a reference text
PrefixosRef == {<<>>, <<" ">>, <<"1">>, <<"x">>, <<"1", "3", "/", "2", "0", "2", "5", " ">>}

\* the month/year part of a reference text
NucleosRef ==
    {T0925, T0825,
     <<"1", "3", "/", "2", "0", "2", "5">>,
     <<"0", "0", "/", "2", "0", "2", "5">>,
     <<"0", "1", "/", "0", "0", "0", "0">>,
     <<"0", "1", "/", "0", "9", "9", "9">>,
     <<"9", "/", "2", "0", "2", "5">>,
     <<"2", "0", "2", "5", "-", "0", "9">>,
     <<"0", "9", "/", " ", "2", "0", "2", "5">>}

\* what may follow it
SufixosRef ==
    {<<>>, <<" ">>, <<" ", "(", "A", "t", "u", "a", "l", ")", " ">>,
     <<"(", "A", "T", "U", "A", "L", ")">>, <<"5">>, <<"a">>,
     <<" ", "0", "1", "/", "2", "0", "2", "5">>}

\* the texts handed to the constructor
TextosRef == {p \o n \o f : p \in PrefixosRef, n \in NucleosRef, f \in SufixosRef}

InitRef ==
    /\ SyncParado
    /\ ValorParado
    /\ DataParada
    /\ LocParada
    /\ SamaeParada
    /\ CelescParada
    /\ EntParada
    /\ UploadParado
    /\ HistParado
    /\ ConcParada
    /\ textoRef \in TextosRef
    /\ refVO = [feito |-> FALSE, r |-> Erro("nenhuma")]
    /\ dataBanco = [feito |-> FALSE, r |-> Erro("nenhuma")]

\* ReferenciaMensal(textoRef)
CriarReferenciaAc ==
    /\ ~refVO.feito
    /\ refVO' = [feito |-> TRUE, r |-> ReferenciaMensal(textoRef)]
    /\ UNCHANGED <<textoRef, dataBanco, varsSync, varsValor, varsData, varsLoc, varsSamae, varsCelesc, varsEnt, varsUpload, varsHist, varsConc>>

\* MesReferencia.para_banco() on the reference constructed
ParaBancoRefAc ==
    /\ refVO.feito /\ refVO.r.ok
    /\ ~dataBanco.feito
    /\ dataBanco' = [feito |-> TRUE, r |-> ParaBanco(refVO.r)]
    /\ UNCHANGED <<textoRef, refVO, varsSync, varsValor, varsData, varsLoc, varsSamae, varsCelesc, varsEnt, varsUpload, varsHist, varsConc>>

NextRef ==
    \/ CriarReferenciaAc
    \/ ParaBancoRefAc

SpecRef == InitRef /\ [][NextRef]_vars

\* ------------------------------------------ construction of NormalizarData

\* format spec 04d, as date.isoformat renders the year
Pad4(n) ==
    IF n < 10 THEN <<"0", "0", "0">> \o NatToDigits(n)
    ELSE IF n < 100 THEN <<"0", "0">> \o NatToDigits(n)
    ELSE IF n < 1000 THEN <<"0">> \o NatToDigits(n)
    ELSE NatToDigits(n)

\* \b(\d{1,2})/(\d{1,2})/(\d{4})\b matches at position i of t with a day of
\* a digits and a month of b digits
CasaDataEm(t, i, a, b) ==
    /\ i >= 1 /\ i + a + b + 5 <= Len(t)
    /\ \A j \in i..(i + a - 1) : t[j] \in Digitos
    /\ t[i + a] = "/"
    /\ \A j \in (i + a + 1)..(i + a + b) : t[j] \in Digitos
    /\ t[i + a + b + 1] = "/"
    /\ \A j \in (i + a + b + 2)..(i + a + b + 5) : t[j] \in Digitos
    /\ (i = 1 \/ ~IsWord(t[i - 1]))
    /\ (i + a + b + 5 = Len(t) \/ ~IsWord(t[i + a + b + 6]))

\* the widths tried at one position, the greedy ones first
LargurasData == <<<<2, 2>>, <<2, 1>>, <<1, 2>>, <<1, 1>>>>

\* _PADRAO_DATA_DD_MM_YYYY.search: the leftmost match as <<position, day
\* digits, month digits>>, <<0, 0, 0>> for no match
RECURSIVE BuscarData(_, _, _)
BuscarData(t, i, k) ==
    IF i + 7 > Len(t) THEN <<0, 0, 0>>
    ELSE IF k > Len(LargurasData) THEN BuscarData(t, i + 1, 1)
    ELSE IF CasaDataEm(t, i, LargurasData[k][1], LargurasData[k][2])
         THEN <<i, LargurasData[k][1], LargurasData[k][2]>>
    ELSE BuscarData(t, i, k + 1)

\* datetime._is_leap
EhBissexto(ano) == ano % 4 = 0 /\ (ano % 100 # 0 \/ ano % 400 = 0)

\* datetime._days_in_month
DiasNoMes(ano, mes) ==
    IF mes = 2 /\ EhBissexto(ano) THEN 29
    ELSE <<31, 28, 31, 30, 31, 30, 31, 31, 30, 31, 30, 31>>[mes]

\* date(ano, mes, dia) raises ValueError outside the calendar; the texts
\* rendered on success
DataNormalizada(dia, mes, ano) ==
    IF ano < 1 \/ mes < 1 \/ mes > 12 THEN Erro("ValueError")
    ELSE IF dia < 1 \/ dia > DiasNoMes(ano, mes) THEN Erro("ValueError")
    ELSE [ok |-> TRUE,
          data |-> Pad2(dia) \o <<"/">> \o Pad2(mes) \o <<"/">> \o NatToDigits(ano),
          dia |-> dia, mes |-> mes, ano |-> ano,
          data_iso |-> Pad4(ano) \o <<"-">> \o Pad2(mes) \o <<"-">> \o Pad2(dia)]

\* the groups of the match m of texto
DataDoMatch(texto, m) ==
    IF m[1] = 0 THEN Erro("ValueError")
    ELSE DataNormalizada(
            DigitsToNat(SubSeq(texto, m[1], m[1] + m[2] - 1)),
            DigitsToNat(SubSeq(texto, m[1] + m[2] + 1, m[1] + m[2] + m[3])),
            DigitsToNat(SubSeq(texto, m[1] + m[2] + m[3] + 2, m[1] + m[2] + m[3] + 5)))

\* the search on the stripped text
DataDeTexto(texto) == DataDoMatch(texto, BuscarData(texto, 1, 1))

\* NormalizarData.__post_init__, through DataEvento.criar_de_texto
NormalizarData(data) == DataDeTexto(Strip(data))

\* what may precede the date in a text
PrefixosData == {<<>>, <<" ">>, <<"x">>, <<"1">>, <<"1", "/">>}

\* the date part of a text
NucleosData ==
    {<<"1", "/", "9", "/", "2", "0", "2", "5">>,
     <<"0", "1", "/", "0", "9", "/", "2", "0", "2", "5">>,
     <<"2", "9", "/", "0", "2", "/", "2", "0", "2", "4">>,
     <<"2", "9", "/", "2", "/", "2", "0", "0", "0">>,
     <<"2", "9", "/", "0", "2", "/", "2", "0", "2", "1">>,
     <<"2", "9", "/", "0", "2", "/", "1", "9", "0", "0">>,
     <<"3", "1", "/", "0", "2", "/", "2", "0", "2", "1">>,
     <<"3", "1", "/", "0", "4", "/", "2", "0", "2", "5">>,
     <<"3", "1", "/", "1", "2", "/", "2", "0", "2", "5">>,
     <<"3", "2", "/", "0", "1", "/", "2", "0", "2", "0">>,
     <<"0", "0", "/", "1", "2", "/", "2", "0", "2", "0">>,
     <<"1", "2", "/", "0", "0", "/", "2", "0", "2", "0">>,
     <<"1", "2", "/", "1", "3", "/", "2", "0", "2", "0">>,
     <<"0", "1", "/", "0", "1", "/", "0", "9", "9", "9">>,
     <<"0", "1", "/", "0", "1", "/", "0", "0", "0", "0">>,
     <<"1", "/", "1", "/", "2", "0">>,
     <<"2", "0", "2", "5", "-", "0", "9", "-", "0", "1">>,
     <<"a", "b", "c">>}

\* what may follow it
SufixosData == {<<>>, <<" ">>, <<"5">>, <<" ", "1", "/", "9", "/", "2", "0", "2", "5">>}

\* the texts handed to the factory
TextosData == {p \o n \o f : p \in PrefixosData, n \in NucleosData, f \in SufixosData}

InitData ==
    /\ SyncParado
    /\ ValorParado
    /\ RefParada
    /\ LocParada
    /\ SamaeParada
    /\ CelescParada
    /\ EntParada
    /\ UploadParado
    /\ HistParado
    /\ ConcParada
    /\ textoData \in TextosData
    /\ dataVO = [feito |-> FALSE, r |-> Erro("nenhuma")]

\* DataEvento.criar_de_texto(textoData)
CriarDataAc ==
    /\ ~dataVO.feito
    /\ dataVO' = [feito |-> TRUE, r |-> NormalizarData(textoData)]
    /\ UNCHANGED <<textoData, varsSync, varsValor, varsRef, varsLoc, varsSamae, varsCelesc, varsEnt, varsUpload, varsHist, varsConc>>

NextData == CriarDataAc

SpecData == InitData /\ [][NextData]_vars

\* ------------------------------------------------------ table location

\* a cell the table extraction left empty (a float NaN of the DataFrame)
NaN == <<"NaN">>

\* astype(str) on a cell
AsStr(celula) == IF celula = NaN THEN <<"n", "a", "n">> ELSE celula

\* a DataFrame: column labels and rows of cells
Tabela(rotulos, celulas) == [colunas |-> rotulos, linhas |-> celulas]

\* separador.join(textos)
RECURSIVE Join(_, _)
Join(textos, separador) ==
    IF textos = <<>> THEN <<>>
    ELSE IF Len(textos) = 1 THEN textos[1]
    ELSE textos[1] \o separador \o Join(Tail(textos), separador)

\* NFKD decomposition with the combining marks dropped, for the accented
\* characters of the model
SemAcento(c) ==
    CASE c = "ê" -> "e" [] c = "Ê" -> "E" [] c = "ó" -> "o" [] c = "Ó" -> "O"
      [] c = "ú" -> "u" [] c = "Ú" -> "U"
      [] OTHER -> c

\* DataFrameWrapper._sem_acentos_minusculo
SemAcentosMinusculo(texto) == [i \in 1..Len(texto) |-> LowerChar(SemAcento(texto[i]))]

\* palavra in texto
ContemTexto(texto, palavra) ==
    \E i \in 0..(Len(texto) - Len(palavra)) :
        SubSeq(texto, i + 1, i + Len(palavra)) = palavra

\* " ".join(linha.astype(str)), normalized on request
LinhaTexto(linha, normalizar) ==
    IF normalizar
    THEN SemAcentosMinusculo(Join([j \in 1..Len(linha) |-> AsStr(linha[j])], <<" ">>))
    ELSE Join([j \in 1..Len(linha) |-> AsStr(linha[j])], <<" ">>)

\* condicao_atendida with any() whatever exigir_todas says
CondicaoAtendidaQualquer(linha_texto, lista_palavras, exigir_todas) ==
    \E k \in 1..Len(lista_palavras) : ContemTexto(linha_texto, lista_palavras[k])

\* condicao_atendida for the row text and the keyword list
CondicaoAtendida(linha_texto, lista_palavras, exigir_todas) ==
    IF exigir_todas
    THEN \A k \in 1..Len(lista_palavras) : ContemTexto(linha_texto, lista_palavras[k])
    ELSE \E k \in 1..Len(lista_palavras) : ContemTexto(linha_texto, lista_palavras[k])

\* the keyword list as it is compared
ListaPalavras(palavras_chave, normalizar) ==
    IF normalizar
    THEN [k \in 1..Len(palavras_chave) |-> SemAcentosMinusculo(palavras_chave[k])]
    ELSE palavras_chave

\* the loops of localizar_tabela_com_palavras_chave from the table i on: the
\* index of the table returned, 0 for None
RECURSIVE LocalizarDesde(_, _, _, _, _)
LocalizarDesde(tabelas, i, lista_palavras, normalizar, exigir_todas) ==
    IF i > Len(tabelas) THEN 0
    ELSE IF \E l \in 1..Len(tabelas[i].linhas) :
                CondicaoAtendida(LinhaTexto(tabelas[i].linhas[l], normalizar),
                                 lista_palavras, exigir_todas)
         THEN i
    ELSE LocalizarDesde(tabelas, i + 1, lista_palavras, normalizar, exigir_todas)

\* DataFrameWrapper.localizar_tabela_com_palavras_chave
LocalizarTabelaComPalavrasChave(tabelas, palavras_chave, normalizar, exigir_todas) ==
    LocalizarDesde(tabelas, 1, ListaPalavras(palavras_chave, normalizar),
                   normalizar, exigir_todas)

MaxTabelas == 2

\* the tables offered to the search
TabelasDeBusca ==
    {Tabela(<<"A", "B">>, <<<<<<"f", "o", "o">>, <<"b", "a", "r">>>>>>),
     Tabela(<<"col">>, <<<<<<"a", "b", "c">>>>, <<<<"R", "e", "f", "e", "r", "ê", "n", "c", "i", "a", " ", "c", "o", "n", "s", "u", "m", "o", " ", "V", "A", "L", "O", "R">>>>, <<<<"x", "y", "z">>>>>>),
     Tabela(<<"col">>, <<<<<<"a", "p", "e", "n", "a", "s", " ", "r", "e", "f", "e", "r", "e", "n", "c", "i", "a", " ", "a", "q", "u", "i">>>>>>),
     Tabela(<<"col">>, <<<<<<"V", "A", "L", "O", "R">>, NaN>>>>),
     Tabela(<<"valor">>, <<>>)}

\* the keyword lists offered to the search
PalavrasDeBusca ==
    {<<<<"r", "e", "f", "e", "r", "e", "n", "c", "i", "a">>, <<"v", "a", "l", "o", "r">>>>,
     <<<<"v", "a", "l", "o", "r">>, <<"n", "a", "n">>>>,
     <<<<"R", "e", "f", "e", "r", "ê", "n", "c", "i", "a">>>>,
     <<<<"V", "A", "L", "O", "R">>>>,
     <<>>}

InitLoc ==
    /\ SyncParado
    /\ ValorParado
    /\ RefParada
    /\ DataParada
    /\ SamaeParada
    /\ CelescParada
    /\ EntParada
    /\ UploadParado
    /\ HistParado
    /\ ConcParada
    /\ busca \in [tabelas : UNION {[1..n -> TabelasDeBusca] : n \in 0..MaxTabelas},
                   palavras_chave : PalavrasDeBusca,
                   normalizar : BOOLEAN, exigir_todas : BOOLEAN]
    /\ encontrada = [feito |-> FALSE, indice |-> 0]

\* localizar_tabela_com_palavras_chave on the search drawn
LocalizarAc ==
    /\ ~encontrada.feito
    /\ encontrada' =
            [feito |-> TRUE,
             indice |-> LocalizarTabelaComPalavrasChave(busca.tabelas,
                            busca.palavras_chave, busca.normalizar, busca.exigir_todas)]
    /\ UNCHANGED <<busca, varsSync, varsValor, varsRef, varsData, varsSamae, varsCelesc, varsEnt, varsUpload, varsHist, varsConc>>

NextLoc == LocalizarAc

SpecLoc == InitLoc /\ [][NextLoc]_vars

\* ------------------------------------------------------- SamaeExtrator

\* ValueError raised with a message
ValueErrorCom(mensagem) == [ok |-> FALSE, exc |-> "ValueError", mensagem |-> mensagem]

\* the elements of s at the positions of S, in order
RECURSIVE NasPosicoes(_, _, _)
NasPosicoes(s, S, i) ==
    IF i > Len(s) THEN <<>>
    ELSE IF i \in S THEN <<s[i]>> \o NasPosicoes(s, S, i + 1)
    ELSE NasPosicoes(s, S, i + 1)

\* the table with the columns at the positions of S only
ManterColunas(df, S) ==
    [colunas |-> NasPosicoes(df.colunas, S, 1),
     linhas |-> [l \in 1..Len(df.linhas) |-> NasPosicoes(df.linhas[l], S, 1)]]

\* df.dropna(axis=1, how="all"): a column stays when some row has a value in it
DropNaColunas(df) ==
    ManterColunas(df, {j \in 1..Len(df.colunas) :
                            \E l \in 1..Len(df.linhas) : df.linhas[l][j] # NaN})

\* the text of the first column of the row l
PrimeiraSerie(df, l) == AsStr(df.linhas[l][1])

\* mascara_atual: the rows whose normalized first cell holds "(atual)"
MascaraAtual(df) ==
    {l \in 1..Len(df.linhas) :
        ContemTexto(SemAcentosMinusculo(PrimeiraSerie(df, l)), Atual)}

\* SamaeExtrator._extrair_mm_yyyy: the position of the match of
\* PADRAO_REFERENCIA_MM_YYYY in the text, 0 for None
ExtrairMmYyyy(texto) == IF texto = <<>> THEN 0 ELSE BuscarMMYYYY(texto, 1)

\* SamaeExtrator._yyyy_mm_int on the match at position m of the text
YyyyMmInt(texto, m) ==
    DigitsToNat(SubSeq(texto, m + 3, m + 6)) * 100 + DigitsToNat(SubSeq(texto, m, m + 1))

\* ordem_yyyymm of the row l, -1 for NaN
OrdemYyyyMm(df, l) ==
    IF ExtrairMmYyyy(PrimeiraSerie(df, l)) = 0 THEN -1
    ELSE YyyyMmInt(PrimeiraSerie(df, l), ExtrairMmYyyy(PrimeiraSerie(df, l)))

\* idxmax: the first row holding the greatest value, the NaN skipped
IdxMax(df) ==
    MinOf({l \in 1..Len(df.linhas) :
            \A k \in 1..Len(df.linhas) : OrdemYyyyMm(df, l) >= OrdemYyyyMm(df, k)})

\* _selecionar_linha_atual without the search for the "(atual)" marker
SelecionarLinhaMaisRecente(df) ==
    IF \A l \in 1..Len(df.linhas) : OrdemYyyyMm(df, l) = -1
    THEN ValueErrorCom("referencia atual")
    ELSE [ok |-> TRUE, indice |-> IdxMax(df)]

\* SamaeExtrator._selecionar_linha_atual: the position of the row selected
SelecionarLinhaAtual(df) ==
    IF MascaraAtual(df) # {} THEN [ok |-> TRUE, indice |-> MinOf(MascaraAtual(df))]
    ELSE IF \A l \in 1..Len(df.linhas) : OrdemYyyyMm(df, l) = -1
    THEN ValueErrorCom("referencia atual")
    ELSE [ok |-> TRUE, indice |-> IdxMax(df)]

\* the reference text without the marker appended
ReferenciaSemAtual(texto, m) ==
    IF m = 0 THEN ValueErrorCom("referencia nao identificada")
    ELSE [ok |-> TRUE, referencia |-> SubSeq(texto, m, m + 6)]

\* the reference text built on the match at position m of the first cell
ReferenciaComAtual(texto, m) ==
    IF m = 0 THEN ValueErrorCom("referencia nao identificada")
    ELSE [ok |-> TRUE,
          referencia |-> SubSeq(texto, m, m + 6) \o <<" ", "(", "A", "t", "u", "a", "l", ")">>]

\* SamaeExtrator._extrair_referencia
ExtrairReferencia(linha) ==
    ReferenciaComAtual(AsStr(linha[1]), BuscarMMYYYY(AsStr(linha[1]), 1))

\* SamaeExtrator._chave_normalizada: re.sub(r"[^a-z0-9]", "", ...)
ChaveNormalizada(texto) ==
    SelectSeq(SemAcentosMinusculo(texto), LAMBDA c : c \in Minusculas \cup Digitos)

\* the test of _detectar_coluna_valor on a normalized label
RotuloDeValor(rotulo) ==
    \/ rotulo \in {<<"v", "a", "l", "o", "r", "r", "s">>, <<"v", "a", "l", "o", "r", "r">>, <<"v", "a", "l", "o", "r">>}
    \/ /\ ContemTexto(rotulo, <<"v", "a", "l", "o", "r">>)
       /\ (ContemTexto(rotulo, <<"r", "s">>) \/ ContemTexto(rotulo, <<"r">>))

\* the (?:\.\d{3})* part of PADRAO_MOEDA from the position p on: where it ends
RECURSIVE PularMilhares(_, _)
PularMilhares(t, p) ==
    IF p + 3 <= Len(t) /\ t[p] = "." /\ AllDigits(SubSeq(t, p + 1, p + 3))
    THEN PularMilhares(t, p + 4)
    ELSE p

\* ,\d{2} at the position p: the last position of the match, 0 for none
FimDosCentavos(t, p) ==
    IF p + 2 <= Len(t) /\ t[p] = "," /\ AllDigits(SubSeq(t, p + 1, p + 2))
    THEN p + 2
    ELSE 0

\* PADRAO_MOEDA at the position i with a leading digits: the last position of
\* the match, 0 for none
FimMoedaCom(t, i, a) ==
    IF i + a - 1 <= Len(t) /\ AllDigits(SubSeq(t, i, i + a - 1))
    THEN FimDosCentavos(t, PularMilhares(t, i + a))
    ELSE 0

\* PADRAO_MOEDA at the position i, the greedy \d{1,3} first
FimMoeda(t, i) ==
    IF FimMoedaCom(t, i, 3) # 0 THEN FimMoedaCom(t, i, 3)
    ELSE IF FimMoedaCom(t, i, 2) # 0 THEN FimMoedaCom(t, i, 2)
    ELSE FimMoedaCom(t, i, 1)

\* re.search(PADRAO_MOEDA, t) from the position i on: first and last position
\* of the leftmost match, <<0, 0>> for none
RECURSIVE BuscarMoeda(_, _)
BuscarMoeda(t, i) ==
    IF i > Len(t) THEN <<0, 0>>
    ELSE IF FimMoeda(t, i) # 0 THEN <<i, FimMoeda(t, i)>>
    ELSE BuscarMoeda(t, i + 1)

\* the cells of the last column that hold an amount
CelulasComMoeda(df) ==
    {l \in 1..Len(df.linhas) :
        BuscarMoeda(AsStr(df.linhas[l][Len(df.colunas)]), 1)[1] # 0}

\* SamaeExtrator._detectar_coluna_valor: the position of the amount column,
\* 0 for None, -1 when df.columns[-1] raises IndexError
DetectarColunaValor(df) ==
    IF \E j \in 1..Len(df.colunas) : RotuloDeValor(ChaveNormalizada(df.colunas[j]))
    THEN MinOf({j \in 1..Len(df.colunas) : RotuloDeValor(ChaveNormalizada(df.colunas[j]))})
    ELSE IF df.colunas = <<>> THEN -1
    ELSE IF 10 * Cardinality(CelulasComMoeda(df)) > 3 * Len(df.linhas)
    THEN Len(df.colunas)
    ELSE 0

\* the fallback of _extrair_valor: the amount found in the text of the row
ValorDoMatch(linha_texto, m) ==
    IF m[1] = 0 THEN ValueErrorCom("valor atual")
    ELSE [ok |-> TRUE, valor |-> SubSeq(linha_texto, m[1], m[2])]

\* _extrair_valor on the stripped cell of the amount column
ValorDaCelula(valor_str, linha_texto) ==
    IF valor_str = <<>> \/ Lower(valor_str) = <<"n", "a", "n">>
    THEN ValorDoMatch(linha_texto, BuscarMoeda(linha_texto, 1))
    ELSE [ok |-> TRUE, valor |-> valor_str]

\* _extrair_valor without the strip() of the cell
ExtrairValorSemStrip(linha, valor_col) ==
    ValorDaCelula(AsStr(linha[valor_col]), LinhaTexto(linha, FALSE))

\* SamaeExtrator._extrair_valor
ExtrairValor(linha, valor_col) ==
    ValorDaCelula(Strip(AsStr(linha[valor_col])), LinhaTexto(linha, FALSE))

\* the one-row table returned by _montar_linha_atual, or the first failure
LinhaMontada(indice, referencia, valor) ==
    IF ~referencia.ok THEN referencia
    ELSE IF ~valor.ok THEN valor
    ELSE [ok |-> TRUE, indice |-> indice, referencia |-> referencia.referencia,
          valor |-> valor.valor]

\* _montar_linha_atual once the row is selected
MontarNaLinha(df, valor_col, sel) ==
    IF ~sel.ok THEN sel
    ELSE LinhaMontada(sel.indice, ExtrairReferencia(df.linhas[sel.indice]),
                      ExtrairValor(df.linhas[sel.indice], valor_col))

\* _montar_linha_atual once the amount column is detected
MontarNaColuna(df, valor_col) ==
    IF valor_col = -1 THEN Erro("IndexError")
    ELSE IF valor_col = 0 THEN ValueErrorCom("coluna valor")
    ELSE MontarNaLinha(df, valor_col, SelecionarLinhaAtual(df))

\* _montar_linha_atual on the table without its empty columns
MontarSemVazias(df) == MontarNaColuna(df, DetectarColunaValor(df))

\* SamaeExtrator._montar_linha_atual
MontarLinhaAtual(df) == MontarSemVazias(DropNaColunas(df))

MaxLinhas == 3

\* the first cells of the rows of a consumption history
PeriodosSamae ==
    {T0825, <<"1", "2", "/", "2", "0", "2", "4">>, T0925Atual, <<"(", "A", "T", "U", "A", "L", ")">>, <<"T", "o", "t", "a", "l">>, <<"0", "9", "/", "2", "0", "2", "5", "5">>, NaN}

\* the amount cells
ValoresSamae == {V4220, NaN}

\* a first cell that carries an amount after the period
PeriodoComValor == <<"1", "0", "/", "2", "0", "2", "5", " ", "7", ",", "5", "0">>

\* rows whose amount cell is padded or blank
LinhasComEspacos ==
    {<<PeriodoComValor, NaN>>, <<PeriodoComValor, <<" ">>>>,
     <<T0925Atual, <<" ", "4", "2", ",", "2", "0", " ">>>>, <<T0925Atual, <<" ">>>>,
     <<T0825, <<" ", "4", "2", ",", "2", "0", " ">>>>}

\* the history tables handed to the extractor
TabelasSamae ==
    {Tabela(<<<<"P", "e", "r", "í", "o", "d", "o">>, <<"V", "a", "l", "o", "r", " ", "(", "R", "$", ")">>>>, ls) :
        ls \in UNION {[1..n -> {<<p, v>> : p \in PeriodosSamae, v \in ValoresSamae}
                                    \cup LinhasComEspacos] :
                        n \in 0..MaxLinhas}}

InitSamae ==
    /\ SyncParado
    /\ ValorParado
    /\ RefParada
    /\ DataParada
    /\ LocParada
    /\ CelescParada
    /\ EntParada
    /\ UploadParado
    /\ HistParado
    /\ ConcParada
    /\ tabelaSamae \in TabelasSamae
    /\ linhaAtual = [feito |-> FALSE, r |-> Erro("nenhuma")]

\* SamaeExtrator._montar_linha_atual(tabelaSamae)
MontarLinhaAtualAc ==
    /\ ~linhaAtual.feito
    /\ linhaAtual' = [feito |-> TRUE, r |-> MontarLinhaAtual(tabelaSamae)]
    /\ UNCHANGED <<tabelaSamae, varsSync, varsValor, varsRef, varsData, varsLoc, varsCelesc, varsEnt, varsUpload, varsHist, varsConc>>

NextSamae == MontarLinhaAtualAc

SpecSamae == InitSamae /\ [][NextSamae]_vars

\* ---------------------------------- SamaeExtrator._extrair_valor_atual

\* PALAVRAS_CHAVE_HISTORICO_CONSUMO
PalavrasChaveHistoricoConsumo ==
    <<<<"H", "I", "S", "T", "Ó", "R", "I", "C", "O">>, <<"C", "O", "N", "S", "U", "M", "O">>, <<"V", "A", "L", "O", "R">>>>

\* the walk of the fallback with the content test passed at 30% of the cells
RECURSIVE PrimeiraComTrintaPorCento(_, _)
PrimeiraComTrintaPorCento(tabelas, i) ==
    IF i > Len(tabelas) THEN 0
    ELSE IF DetectarColunaValor(tabelas[i]) = -1 THEN -1
    ELSE IF \/ DetectarColunaValor(tabelas[i]) # 0
            \/ /\ tabelas[i].linhas # <<>>
               /\ 10 * Cardinality(CelulasComMoeda(tabelas[i])) >= 3 * Len(tabelas[i].linhas)
    THEN i
    ELSE PrimeiraComTrintaPorCento(tabelas, i + 1)

\* next((t for t in tabelas if self._detectar_coluna_valor(t) is not None),
\* None) from the table i on: the position of the table, 0 for None, -1 when
\* _detectar_coluna_valor raises IndexError on a table without columns
RECURSIVE PrimeiraComColunaDeValor(_, _)
PrimeiraComColunaDeValor(tabelas, i) ==
    IF i > Len(tabelas) THEN 0
    ELSE IF DetectarColunaValor(tabelas[i]) = -1 THEN -1
    ELSE IF DetectarColunaValor(tabelas[i]) # 0 THEN i
    ELSE PrimeiraComColunaDeValor(tabelas, i + 1)

\* _extrair_valor_atual once the fallback has chosen
ValorAtualDoFallback(tabelas, f) ==
    IF f = -1 THEN [escolhida |-> 0, r |-> Erro("IndexError")]
    ELSE IF f = 0 THEN [escolhida |-> 0, r |-> ValueErrorCom("tabela")]
    ELSE [escolhida |-> f, r |-> MontarLinhaAtual(tabelas[f])]

\* _extrair_valor_atual once the keyword search has answered
ValorAtualDaBusca(tabelas, h) ==
    IF h # 0 THEN [escolhida |-> h, r |-> MontarLinhaAtual(tabelas[h])]
    ELSE ValorAtualDoFallback(tabelas, PrimeiraComColunaDeValor(tabelas, 1))

\* SamaeExtrator._extrair_valor_atual
ExtrairValorAtual(tabelas) ==
    ValorAtualDaBusca(tabelas,
        LocalizarTabelaComPalavrasChave(tabelas, PalavrasChaveHistoricoConsumo, TRUE, FALSE))

\* a table of ten rows read by lattice, columns labelled by position: the
\* first n rows carry an amount in the column col, the others do not
DezLinhas(n, col) ==
    Tabela(<<<<"0">>, <<"1">>>>,
           [l \in 1..10 |-> IF l > n THEN <<T0825, VAbc>>
                            ELSE IF col = 1 THEN <<V4220, VAbc>>
                            ELSE <<T0825, V4220>>])

\* the tables a PDF may hold
TabelasDoPdf ==
    {Tabela(<<<<"0">>, <<"1">>>>, <<<<<<"H", "i", "s", "t", "ó", "r", "i", "c", "o">>, <<"V", "a", "l", "o", "r">>>>, <<T0925Atual, V4220>>>>),
     Tabela(<<<<"P", "e", "r", "í", "o", "d", "o">>, <<"V", "a", "l", "o", "r", " ", "(", "R", "$", ")">>>>, <<<<T0925Atual, V3910>>>>),
     DezLinhas(2, 2), DezLinhas(3, 2), DezLinhas(4, 2), DezLinhas(10, 1),
     Tabela(<<<<"0">>>>, <<>>),
     Tabela(<<>>, <<>>)}

InitHist ==
    /\ SyncParado
    /\ ValorParado
    /\ RefParada
    /\ DataParada
    /\ LocParada
    /\ SamaeParada
    /\ CelescParada
    /\ EntParada
    /\ UploadParado
    /\ ConcParada
    /\ tabelasPdf \in UNION {[1..n -> TabelasDoPdf] : n \in 0..MaxTabelas}
    /\ valorAtual = [feito |-> FALSE, escolhida |-> 0, r |-> Erro("nenhuma")]

\* SamaeExtrator._extrair_valor_atual(tabelasPdf)
ExtrairValorAtualAc ==
    /\ ~valorAtual.feito
    /\ valorAtual' = [feito |-> TRUE,
                      escolhida |-> ExtrairValorAtual(tabelasPdf).escolhida,
                      r |-> ExtrairValorAtual(tabelasPdf).r]
    /\ UNCHANGED <<tabelasPdf, varsSync, varsValor, varsRef, varsData, varsLoc, varsSamae, varsCelesc, varsEnt, varsUpload, varsConc>>

NextHist == ExtrairValorAtualAc

SpecHist == InitHist /\ [][NextHist]_vars

\* ------------------------------------------- two requests, two sessions

MaxDocsConc == 1

\* the batches of the concurrent requests
LotesConc(svc) == UNION {[1..n -> Arquivos(svc)] : n \in 0..MaxDocsConc}

\* the loop over pdf_paths from the path i on: the dict collected, or the
\* exception that leaves sync_from_pdfs
RECURSIVE ColetarLote(_, _, _, _, _)
RECURSIVE ColetarPasso(_, _, _, _, _, _)
ColetarLote(svc, pdf_paths, i, d, id) ==
    IF i > Len(pdf_paths) THEN [ok |-> TRUE, d |-> d, exc |-> "nenhuma"]
    ELSE ColetarPasso(svc, pdf_paths, i, d, id, Extrair(svc, pdf_paths[i], id))

ColetarPasso(svc, pdf_paths, i, d, id, r) ==
    IF r.ok
    THEN ColetarLote(svc, pdf_paths, i + 1, Coletar(svc, d, r.contas), id + Len(r.contas))
    ELSE IF r.exc \in ExcecoesCapturadas THEN ColetarLote(svc, pdf_paths, i + 1, d, id)
    ELSE [ok |-> FALSE, d |-> d, exc |-> r.exc]

\* the entities sync_from_pdfs hands to add_many, given the dict collected
ParaInserir(d, conhecidas) == ContasParaInserir(d, ReferenciasNovas(d, conhecidas))

InitConc ==
    /\ SyncParado
    /\ ValorParado
    /\ RefParada
    /\ DataParada
    /\ LocParada
    /\ SamaeParada
    /\ CelescParada
    /\ EntParada
    /\ UploadParado
    /\ HistParado
    /\ servicoConc \in {"agua", "luz"}
    /\ tabelaConc \in LojasIniciais(servicoConc)
    /\ sessoes = [s \in {1, 2} |-> SessaoFechada]

\* a request enters get_database_session and calls sync_from_pdfs
AbrirSessaoAc(s, b) ==
    /\ sessoes[s].pc = "fechada"
    /\ sessoes' = [sessoes EXCEPT ![s] = [pc |-> "listar", lote |-> b,
                                          existentes |-> {}, fila |-> <<>>]]
    /\ UNCHANGED <<servicoConc, tabelaConc, varsSync, varsValor, varsRef, varsData, varsLoc, varsSamae, varsCelesc, varsEnt, varsUpload, varsHist>>

\* list_existing_references in the session s: the rows committed so far
ListarAc(s) ==
    /\ sessoes[s].pc = "listar"
    /\ sessoes' = [sessoes EXCEPT ![s].pc = "extrair",
                       ![s].existentes = ListExistingReferences(servicoConc, tabelaConc)]
    /\ UNCHANGED <<servicoConc, tabelaConc, varsSync, varsValor, varsRef, varsData, varsLoc, varsSamae, varsCelesc, varsEnt, varsUpload, varsHist>>

\* the rest of sync_from_pdfs in the session s: the loop over the paths, the
\* new references and add_many, which queues the entities in the session
SincronizarAc(s) ==
    /\ sessoes[s].pc = "extrair"
    /\ \E r \in {ColetarLote(servicoConc, sessoes[s].lote, 1, <<>>, 10 * s + 1)} :
          \/ /\ r.ok
             /\ sessoes' = [sessoes EXCEPT ![s].pc = "retornou",
                                ![s].fila = AddMany(<<>>, ParaInserir(r.d, sessoes[s].existentes)).fila]
          \/ /\ ~r.ok
             /\ sessoes' = [sessoes EXCEPT ![s].pc = "erro"]
    /\ UNCHANGED <<servicoConc, tabelaConc, varsSync, varsValor, varsRef, varsData, varsLoc, varsSamae, varsCelesc, varsEnt, varsUpload, varsHist>>

\* the with block of the session s ends normally: session.commit()
CommitAc(s) ==
    /\ sessoes[s].pc = "retornou"
    /\ tabelaConc' = SessionCommit(tabelaConc, sessoes[s].fila)
    /\ sessoes' = [sessoes EXCEPT ![s].pc = "commit"]
    /\ UNCHANGED <<servicoConc, varsSync, varsValor, varsRef, varsData, varsLoc, varsSamae, varsCelesc, varsEnt, varsUpload, varsHist>>

\* the with block of the session s ends by an exception: session.rollback()
RollbackAc(s) ==
    /\ sessoes[s].pc = "erro"
    /\ tabelaConc' = SessionRollback(tabelaConc, sessoes[s].fila)
    /\ sessoes' = [sessoes EXCEPT ![s].pc = "rollback"]
    /\ UNCHANGED <<servicoConc, varsSync, varsValor, varsRef, varsData, varsLoc, varsSamae, varsCelesc, varsEnt, varsUpload, varsHist>>

NextConc ==
    \/ \E s \in {1, 2} : \E b \in LotesConc(servicoConc) : AbrirSessaoAc(s, b)
    \/ \E s \in {1, 2} : ListarAc(s)
    \/ \E s \in {1, 2} : SincronizarAc(s)
    \/ \E s \in {1, 2} : CommitAc(s)
    \/ \E s \in {1, 2} : RollbackAc(s)

SpecConc == InitConc /\ [][NextConc]_vars

\* ------------------------------------------------------ CelescExtrator

\* termos_cabecalho
TermosCabecalho == <<<<"d", "a", "t", "a">>, <<"d", "o", "c", "u", "m", "e", "n", "t", "o">>, <<"n", "u", "m", "e", "r", "o">>, <<"r", "e", "f", "e", "r", "e", "n", "c", "i", "a">>>>

\* the rows of df, counted from 0, whose normalized text holds all the terms
LinhasDeCabecalho(df) ==
    {i \in 0..(Len(df.linhas) - 1) :
        CondicaoAtendida(LinhaTexto(df.linhas[i + 1], TRUE), TermosCabecalho, TRUE)}

\* the row at which the loop of _detectar_indices_cabecalho_e_dados stops,
\* -1 when it runs to the end
IndiceDoCabecalho(df) ==
    IF LinhasDeCabecalho(df) = {} THEN -1 ELSE MinOf(LinhasDeCabecalho(df))

\* str.replace(r"\s+", " ", regex=True) from the position i on
RECURSIVE JuntarEspacos(_, _)
JuntarEspacos(t, i) ==
    IF i > Len(t) THEN <<>>
    ELSE IF ~IsSpace(t[i]) THEN <<t[i]>> \o JuntarEspacos(t, i + 1)
    ELSE IF i > 1 /\ IsSpace(t[i - 1]) THEN JuntarEspacos(t, i + 1)
    ELSE <<" ">> \o JuntarEspacos(t, i + 1)

\* astype(str).str.replace(r"\s+", " ", regex=True).str.strip()
TextoNormalizado(celula) == Strip(JuntarEspacos(AsStr(celula), 1))

\* t.split(sep) for a separator of one character
RECURSIVE Split(_, _)
Split(t, sep) ==
    IF ~Contem(t, sep) THEN <<t>>
    ELSE <<SubSeq(t, 1, MinOf({i \in 1..Len(t) : t[i] = sep}) - 1)>>
            \o Split(SubSeq(t, MinOf({i \in 1..Len(t) : t[i] = sep}) + 1, Len(t)), sep)

\* \d{2}/\d{2}/\d{4}
EhDataComposta(t) ==
    /\ Len(t) = 10
    /\ \A j \in {1, 2, 4, 5, 7, 8, 9, 10} : t[j] \in Digitos
    /\ t[3] = "/" /\ t[6] = "/"

\* \d{4,}-\d+ on the parts left and right of the hyphens
EhDocumentoComposto(partes) ==
    /\ Len(partes) = 2
    /\ Len(partes[1]) >= 4 /\ AllDigits(partes[1])
    /\ Len(partes[2]) >= 1 /\ AllDigits(partes[2])

\* padrao_coluna_composta on the fields of a normalized text
CasaCampos(campos) ==
    /\ Len(campos) = 4
    /\ EhDataComposta(campos[1])
    /\ EhDocumentoComposto(Split(campos[2], "-"))
    /\ Len(campos[3]) >= 1 /\ AllDigits(campos[3])
    /\ Len(campos[4]) >= 1 /\ AllDigits(campos[4])

\* str.match(padrao_coluna_composta) on a normalized text
CasaComposta(texto) == CasaCampos(Split(texto, " "))

\* the candidates of _encontrar_coluna_composta for n columns, in the order
\* they are appended: each column, then 0+1, then 0+1+2 (columns from 1 here)
Candidatas(n) ==
    [j \in 1..n |-> <<j>>]
        \o (IF n >= 2 THEN <<<<1, 2>>>> ELSE <<>>)
        \o (IF n >= 3 THEN <<<<1, 2, 3>>>> ELSE <<>>)

\* the text of a candidate in one row: the cells joined by one space
TextoDaCandidata(linha, cols) ==
    Join([k \in 1..Len(cols) |-> AsStr(linha[cols[k]])], <<" ">>)

\* pontuacao_coluna: the rows of the candidate that match the pattern
Pontuacao(dados, cols) ==
    Cardinality({l \in 1..Len(dados.linhas) :
                    CasaComposta(TextoNormalizado(TextoDaCandidata(dados.linhas[l], cols)))})

\* the choice that prefers, among the candidates of greatest score, the one
\* of most columns
MelhorCandidataMaisLarga(dados, cs) ==
    cs[MinOf({k \in 1..Len(cs) : \A j \in 1..Len(cs) :
                \/ Pontuacao(dados, cs[k]) > Pontuacao(dados, cs[j])
                \/ (Pontuacao(dados, cs[k]) = Pontuacao(dados, cs[j]) /\ Len(cs[k]) >= Len(cs[j]))})]

\* the sort key (score, -columns) of a is not below that of b
ChaveNaoMenor(dados, a, b) ==
    \/ Pontuacao(dados, a) > Pontuacao(dados, b)
    \/ (Pontuacao(dados, a) = Pontuacao(dados, b) /\ Len(a) <= Len(b))

\* candidatas[0] after the stable sort in reverse order: the first candidate
\* of greatest key
MelhorCandidata(dados, cs) ==
    cs[MinOf({k \in 1..Len(cs) : \A j \in 1..Len(cs) : ChaveNaoMenor(dados, cs[k], cs[j])})]

\* str.split(r"\s+", n=k) on a normalized text: at most k splits
RECURSIVE SplitMax(_, _)
SplitMax(t, k) ==
    IF k = 0 \/ ~Contem(t, " ") THEN <<t>>
    ELSE <<SubSeq(t, 1, MinOf({i \in 1..Len(t) : t[i] = " "}) - 1)>>
            \o SplitMax(SubSeq(t, MinOf({i \in 1..Len(t) : t[i] = " "}) + 1, Len(t)), k - 1)

\* the part k of a split row, the fill value when the row has fewer parts
ParteOu(partes, k, vazio) == IF k <= Len(partes) THEN partes[k] ELSE vazio

\* (N1 + " " + N2).str.strip()
NumeroReferencia(n1, n2) == Strip(n1 \o <<" ">> \o n2)

\* the three fields of one row when the pattern matched some row: the groups
\* of the match, NaN in a row without match
CamposDoMatch(texto, campos) ==
    IF CasaComposta(texto)
    THEN <<campos[1], campos[2], NumeroReferencia(campos[3], campos[4])>>
    ELSE <<NaN, NaN, <<>>>>

\* the three fields of one row on the fallback split
CamposDoSplit(partes) ==
    <<partes[1], ParteOu(partes, 2, NaN),
      NumeroReferencia(ParteOu(partes, 3, <<>>), ParteOu(partes, 4, <<>>))>>

\* the number of columns of str.split(..., expand=True)
LarguraDoSplit(textos) ==
    IF textos = <<>> THEN 0
    ELSE MaxOf({Len(SplitMax(textos[l], 3)) : l \in 1..Len(textos)})

\* CelescExtrator._decompor_coluna_composta_em_campos on the normalized texts
\* of the composite column: rows of Data, Documento and number-reference
DecomporColunaComposta(textos) ==
    IF \E l \in 1..Len(textos) : CasaComposta(textos[l])
    THEN [ok |-> TRUE,
          linhas |-> [l \in 1..Len(textos) |->
                        CamposDoMatch(textos[l], Split(textos[l], " "))]]
    ELSE IF LarguraDoSplit(textos) # 4 THEN Erro("ValueError")
    ELSE [ok |-> TRUE,
          linhas |-> [l \in 1..Len(textos) |-> CamposDoSplit(SplitMax(textos[l], 3))]]

RotuloReferencia == <<"R", "e", "f", "e", "r", "ê", "n", "c", "i", "a">>

RotuloVencimento == <<"V", "e", "n", "c", "i", "m", "e", "n", "t", "o">>

RotuloTotalAPagar == <<"T", "o", "t", "a", "l", " ", "a", " ", "P", "a", "g", "a", "r", " ", "(", "R", "$", ")">>

RotuloValorTotal == <<"V", "a", "l", "o", "r", " ", "T", "o", "t", "a", "l">>

\* the labels of the left block
RotulosDaEsquerda == <<<<"D", "a", "t", "a">>, <<"D", "o", "c", "u", "m", "e", "n", "t", "o">>, <<"N", "ú", "m", "e", "r", "o", "-", "R", "e", "f", "e", "r", "ê", "n", "c", "i", "a", " ", "e", " ", "U", "n", "i", "d", "a", "d", "e", "-", "C", "o", "n", "s", "u", "m", "i", "d", "o", "r", "a">>>>

\* re.sub(r"[^a-z]", "", nome_normalizado)
ChaveComparacao(nome) == SelectSeq(SemAcentosMinusculo(nome), LAMBDA c : c \in Minusculas)

\* the label _normalizar_nomes_colunas_alvo gives to a column
NomeNormalizado(coluna, chave) ==
    IF chave = <<"r", "e", "f", "e", "r", "e", "n", "c", "i", "a">> /\ AsStr(coluna) # RotuloReferencia THEN RotuloReferencia
    ELSE IF chave = <<"v", "e", "n", "c", "i", "m", "e", "n", "t", "o">> /\ AsStr(coluna) # RotuloVencimento THEN RotuloVencimento
    ELSE IF chave \in {<<"t", "o", "t", "a", "l", "a", "p", "a", "g", "a", "r">>, <<"t", "o", "t", "a", "l", "a", "p", "a", "g", "a", "r", "r", "s">>} /\ AsStr(coluna) # RotuloTotalAPagar
    THEN RotuloTotalAPagar
    ELSE coluna

\* CelescExtrator._normalizar_nomes_colunas_alvo on the labels
NormalizarNomesColunasAlvo(colunas) ==
    [j \in 1..Len(colunas) |-> NomeNormalizado(colunas[j], ChaveComparacao(AsStr(colunas[j])))]

\* the label _renomear_total_para_valor_total gives to a column
NomeDoTotal(coluna) ==
    IF coluna # NaN /\ ContemTexto(coluna, <<"T", "o", "t", "a", "l", " ", "a", " ", "P", "a", "g", "a", "r">>) THEN RotuloValorTotal ELSE coluna

\* str.replace("R$", "", regex=False) from the position i on
RECURSIVE RemoverCifrao(_, _)
RemoverCifrao(t, i) ==
    IF i > Len(t) THEN <<>>
    ELSE IF i < Len(t) /\ t[i] = "R" /\ t[i + 1] = "$" THEN RemoverCifrao(t, i + 2)
    ELSE <<t[i]>> \o RemoverCifrao(t, i + 1)

\* a cell of the final table: those of "Valor Total" lose the currency marker
CelulaFinal(rotulo, celula) ==
    IF rotulo = RotuloValorTotal THEN Strip(RemoverCifrao(AsStr(celula), 1)) ELSE celula

\* the table under the labels given, the cells of "Valor Total" cleaned; two
\* columns of that label make the .str accessor fail
ComValorTotalLimpo(colunas, celulas) ==
    IF Cardinality({j \in 1..Len(colunas) : colunas[j] = RotuloValorTotal}) > 1
    THEN Erro("AttributeError")
    ELSE [ok |-> TRUE, colunas |-> colunas,
          linhas |-> [l \in 1..Len(celulas) |->
                        [j \in 1..Len(colunas) |-> CelulaFinal(colunas[j], celulas[l][j])]]]

\* CelescExtrator._renomear_total_para_valor_total
RenomearTotalParaValorTotal(colunas, celulas) ==
    ComValorTotalLimpo([j \in 1..Len(colunas) |-> NomeDoTotal(colunas[j])], celulas)

\* the cleaning steps at the end of _montar_tabela_celesc: the rows with a
\* null Data dropped, the labels normalized, the total renamed and cleaned
LimparTabelaFinal(colunas, celulas) ==
    RenomearTotalParaValorTotal(NormalizarNomesColunasAlvo(colunas),
                                SelectSeq(celulas, LAMBDA linha : linha[1] # NaN))

\* pd.concat of the left block with the columns the composite did not consume
MontarBlocos(dados, restantes, esquerda) ==
    IF ~esquerda.ok THEN esquerda
    ELSE LimparTabelaFinal(
            RotulosDaEsquerda \o NasPosicoes(dados.colunas, restantes, 1),
            [l \in 1..Len(dados.linhas) |->
                esquerda.linhas[l] \o NasPosicoes(dados.linhas[l], restantes, 1)])

\* _montar_tabela_celesc once the composite column is chosen
MontarComCandidata(dados, cols) ==
    MontarBlocos(dados,
                 (1..Len(dados.colunas)) \ {cols[k] : k \in 1..Len(cols)},
                 DecomporColunaComposta(
                    [l \in 1..Len(dados.linhas) |->
                        TextoNormalizado(TextoDaCandidata(dados.linhas[l], cols))]))

\* _montar_tabela_celesc on the data rows under their header; candidatas[0]
\* raises IndexError on a table without columns
MontarDados(dados) ==
    IF dados.colunas = <<>> THEN Erro("IndexError")
    ELSE MontarComCandidata(dados, MelhorCandidata(dados, Candidatas(Len(dados.colunas))))

\* _montar_tabela_celesc once the indices are detected
MontarComIndices(df, indices) ==
    IF ~AplicarCabecalhoDaLinha(Len(df.linhas), indices[1]).ok THEN Erro("IndexError")
    ELSE MontarDados(Tabela(df.linhas[indices[1] + 1],
                            SubSeq(df.linhas, indices[2] + 1, Len(df.linhas))))

\* the indices _montar_tabela_celesc works with, auto_detectar_indices set
IndicesDetectados(df) ==
    DetectarIndicesCabecalhoEDados(Len(df.linhas), IndiceDoCabecalho(df))

\* indices_colunas_consumidas, empty when the assembly fails before the
\* composite column is looked for
ColunasConsumidas(df, indices) ==
    IF ~AplicarCabecalhoDaLinha(Len(df.linhas), indices[1]).ok THEN <<>>
    ELSE IF df.linhas[indices[1] + 1] = <<>> THEN <<>>
    ELSE MelhorCandidata(Tabela(df.linhas[indices[1] + 1],
                                SubSeq(df.linhas, indices[2] + 1, Len(df.linhas))),
                         Candidatas(Len(df.linhas[indices[1] + 1])))

\* CelescExtrator._montar_tabela_celesc on the raw table
MontarTabelaFinal(df) == MontarComIndices(df, IndicesDetectados(df))

V12345 == <<"1", "2", "3", ",", "4", "5">>

V10000 == <<"1", "0", "0", ",", "0", "0">>

\* the most data rows of a raw table
MaxDados == 2

\* a row that is neither header nor data
LinhaIrrelevante == <<<<"i", "r", "r", "e", "l", "e", "v", "a", "n", "t", "e">>, <<"x">>, <<"y">>, <<"z">>>>

\* header rows: the canonical labels, labels split and in upper case, and a
\* row that lacks one of the four terms
CabecalhosCelesc ==
    {<<<<"D", "a", "t", "a", " ", "D", "o", "c", "u", "m", "e", "n", "t", "o", " ", "N", "ú", "m", "e", "r", "o">>, NaN, RotuloReferencia, RotuloTotalAPagar>>,
     <<<<"D", "a", "t", "a">>, <<"D", "o", "c", "u", "m", "e", "n", "t", "o", " ", "N", "ú", "m", "e", "r", "o">>, <<"R", "E", "F", "E", "R", "Ê", "N", "C", "I", "A">>, <<"T", "O", "T", "A", "L", " ", "A", " ", "P", "A", "G", "A", "R", " ", "(", "R", "$", ")">>>>,
     <<<<"D", "a", "t", "a", " ", "D", "o", "c", "u", "m", "e", "n", "t", "o">>, NaN, RotuloReferencia, <<"T", "o", "t", "a", "l", " ", "a", " ", "P", "a", "g", "a", "r">>>>}

\* data rows: the composite field in one cell, split over two cells, with
\* ragged spacing, with a document of too few digits, split over three cells,
\* in the second cell, absent
LinhasDeDadosCelesc ==
    {<<<<"0", "1", "/", "0", "9", "/", "2", "0", "2", "5", " ", "1", "2", "3", "4", "-", "5", " ", "9", " ", "8">>, NaN, T0925, <<"R", "$", " ", "1", "2", "3", ",", "4", "5">>>>,
     <<<<"0", "1", "/", "0", "8", "/", "2", "0", "2", "5">>, <<"2", "2", "3", "4", "-", "5", " ", "1", " ", "2">>, T0825, <<" ", "R", "$", " ", "1", "0", "0", ",", "0", "0", " ">>>>,
     <<<<"0", "1", "/", "0", "7", "/", "2", "0", "2", "5", " ", " ", "3", "2", "3", "4", "-", "5", " ", "1", " ", "2">>, NaN, <<"0", "7", "/", "2", "0", "2", "5">>, <<" ", "R", "$", " ", "1", "0", "0", ",", "0", "0", " ">>>>,
     <<<<"0", "1", "/", "0", "6", "/", "2", "0", "2", "5", " ", "1", "2", "-", "5", " ", "9", " ", "8">>, NaN, <<"0", "6", "/", "2", "0", "2", "5">>, V4220>>,
     <<<<"T", "o", "t", "a", "l">>, NaN, NaN, <<"R", "$", " ", "2", "2", "3", ",", "4", "5">>>>,
     <<<<"0", "1", "/", "0", "5", "/", "2", "0", "2", "5">>, <<"5", "2", "3", "4", "-", "5">>, <<"3", " ", "4">>, <<"R", "$", " ", "5", "0", ",", "0", "0">>>>,
     <<<<"x">>, <<"0", "1", "/", "0", "4", "/", "2", "0", "2", "5", " ", "4", "2", "3", "4", "-", "5", " ", "5", " ", "6">>, <<"0", "4", "/", "2", "0", "2", "5">>, V4220>>,
     <<NaN, NaN, NaN, NaN>>}

\* the rows that may precede the header
LinhasIniciais == {<<>>, <<LinhaIrrelevante>>, [i \in 1..4 |-> LinhaIrrelevante]}

\* the raw tables of four columns
TabelasLargas ==
    {Tabela(<<<<"0">>, <<"1">>, <<"2">>, <<"3">>>>, ini \o cab \o dados) :
        ini \in LinhasIniciais,
        cab \in {<<>>} \cup {<<c>> : c \in CabecalhosCelesc},
        dados \in UNION {[1..n -> LinhasDeDadosCelesc] : n \in 0..MaxDados}}

\* the first w columns of a table
Estreita(t, w) ==
    Tabela(SubSeq(t.colunas, 1, w), [l \in 1..Len(t.linhas) |-> SubSeq(t.linhas[l], 1, w)])

\* the raw tables handed to the extractor: those of four columns, and the
\* first column or the first two of those with four rows before the header
TabelasCelesc ==
    TabelasLargas
        \cup {Estreita(t, w) : t \in {u \in TabelasLargas : Len(u.linhas) >= 4 /\ u.linhas[4] = LinhaIrrelevante},
                              w \in {1, 2}}

InitCelesc ==
    /\ SyncParado
    /\ ValorParado
    /\ RefParada
    /\ DataParada
    /\ LocParada
    /\ SamaeParada
    /\ EntParada
    /\ UploadParado
    /\ HistParado
    /\ ConcParada
    /\ tabelaBruta \in TabelasCelesc
    /\ tabelaFinal = [feito |-> FALSE, indices |-> <<0, 0>>, consumidas |-> <<>>,
                   r |-> Erro("nenhuma")]

\* CelescExtrator._montar_tabela_celesc(tabelaBruta, ParametrosExtracao())
MontarTabelaCelescAc ==
    /\ ~tabelaFinal.feito
    /\ tabelaFinal' = [feito |-> TRUE, indices |-> IndicesDetectados(tabelaBruta),
                       consumidas |-> ColunasConsumidas(tabelaBruta, IndicesDetectados(tabelaBruta)),
                       r |-> MontarTabelaFinal(tabelaBruta)]
    /\ UNCHANGED <<tabelaBruta, varsSync, varsValor, varsRef, varsData, varsLoc, varsSamae, varsEnt, varsUpload, varsHist, varsConc>>

NextCelesc == MontarTabelaCelescAc

SpecCelesc == InitCelesc /\ [][NextCelesc]_vars

\* ------------------------------------------- entities and their auditing
\* Entity.updated_at and Entity.deleted_at before any update or deletion
None == 0

\* a slot that was never assigned: reading it raises AttributeError
SemValor == -1

\* the most entities alive
MaxEntidades == 1

\* the last reading of the clock
MaxRelogio == 3

\* the entity classes with update or delete commands
Classes == {"ContaLuz", "ContaAgua", "Expense", "ExpenseVariable", "Transaction"}

\* the classes that have a repository
ClassesDeConta == {"ContaLuz", "ContaAgua"}

\* the domain fields the commands of a class assign, in the order of assignment
NumCampos(classe) ==
    CASE classe \in ClassesDeConta -> 2
      [] classe \in {"Expense", "ExpenseVariable"} -> 3
      [] classe = "Transaction" -> 4

\* the classes declared with slots=True and init=False: their __init__ never
\* assigns the slots updated_at and deleted_at, and the slots hide the
\* defaults of Entity
InitManual(classe) == classe \in {"ExpenseVariable", "Transaction"}

\* an argument left out, an argument its value object rejects
Omitido == "omitido"

Invalido == "invalido"

\* the value the factories give to a field, and the value the commands may
\* give it afterwards
ValorInicial == "v1"

ValoresCampo == {"v2"}

\* the entity as its factory returns it
NovaEntidade(classe, id, agora) ==
    [classe |-> classe, id |-> id, created_at |-> agora,
     updated_at |-> IF InitManual(classe) THEN SemValor ELSE None,
     deleted_at |-> IF InitManual(classe) THEN SemValor ELSE None,
     campos |-> [k \in 1..NumCampos(classe) |-> ValorInicial]]

\* the assignments of a command from the argument k on: an argument left out
\* is skipped, a rejected one raises and leaves the earlier assignments done
RECURSIVE AtribuirCampos(_, _, _)
AtribuirCampos(campos, args, k) ==
    IF k > Len(args) THEN [campos |-> campos, exc |-> "nenhuma"]
    ELSE IF args[k] = Omitido THEN AtribuirCampos(campos, args, k + 1)
    ELSE IF args[k] = Invalido THEN [campos |-> campos, exc |-> "ValueError"]
    ELSE AtribuirCampos([campos EXCEPT ![k] = args[k]], args, k + 1)

\* Entity.registrar_atualizacao when the assignments went through
ComAtualizacao(e, atribuidos, registrar, agora) ==
    [e |-> [e EXCEPT !.campos = atribuidos.campos,
                     !.updated_at = IF atribuidos.exc = "nenhuma" /\ registrar
                                    THEN agora ELSE e.updated_at],
     exc |-> atribuidos.exc]

\* ContaLuz.atualizar, ContaAgua.atualizar, Expense.atualizar,
\* ExpenseVariable.atualizar, Transaction.atualizar: the assignments, then the
\* time of the update; Transaction.atualizar without tipo assigns the default
Atualizar(e, args, agora) ==
    ComAtualizacao(e,
        AtribuirCampos(e.campos,
            IF e.classe = "Transaction" /\ args[4] = Omitido
            THEN [args EXCEPT ![4] = ValorInicial] ELSE args, 1),
        TRUE, agora)

\* ExpenseVariable.patch: mes_referencia and valor are assigned, then reading
\* self._NAO_FORNECIDO, a slot never assigned, raises AttributeError
PatchExpenseVariable(e, atribuidos) ==
    [e |-> [e EXCEPT !.campos = atribuidos.campos],
     exc |-> IF atribuidos.exc = "nenhuma" THEN "AttributeError" ELSE atribuidos.exc]

\* Expense.patch registers the update when a field was given, Transaction.patch
\* always
Patch(e, args, agora) ==
    IF e.classe = "ExpenseVariable"
    THEN PatchExpenseVariable(e, AtribuirCampos(e.campos, SubSeq(args, 1, 2), 1))
    ELSE ComAtualizacao(e, AtribuirCampos(e.campos, args, 1),
                        e.classe = "Transaction" \/ \E k \in 1..Len(args) : args[k] # Omitido,
                        agora)

\* Entity.registrar_exclusao
RegistrarExclusao(e, agora) == [e EXCEPT !.deleted_at = agora]

\* the first line of ContaLuzRepository.delete: deleted_at or None
DeletedAtOuNone(e) ==
    [e EXCEPT !.deleted_at = IF e.deleted_at = None THEN None ELSE e.deleted_at]

\* the arguments of the full update of a class: strict value objects for
\* Expense, optional arguments for the bills, an optional tipo for Transaction
ArgsAtualizar(classe) ==
    {args \in [1..NumCampos(classe) -> ValoresCampo \cup {Omitido, Invalido}] :
        /\ classe = "Expense" => \A k \in 1..3 : args[k] \in ValoresCampo
        /\ classe = "ExpenseVariable" => \A k \in 1..3 : args[k] # Omitido
        /\ classe = "ExpenseVariable" => args[3] # Invalido
        /\ classe = "Transaction" => \A k \in 1..3 : args[k] # Omitido}

\* the arguments of patch
ArgsPatch(classe) ==
    {args \in [1..NumCampos(classe) -> ValoresCampo \cup {Omitido, Invalido}] :
        /\ classe = "Expense" => \A k \in 1..3 : args[k] # Invalido
        /\ classe = "ExpenseVariable" => args[3] # Invalido}

\* what the last operation was, on which entity, and the entity before it
Operacao(op, alvo, antes, semCampos, naSessao, exc) ==
    [op |-> op, alvo |-> alvo, antes |-> antes, semCampos |-> semCampos,
     naSessao |-> naSessao, exc |-> exc]

InitEnt ==
    /\ SyncParado
    /\ ValorParado
    /\ RefParada
    /\ DataParada
    /\ LocParada
    /\ SamaeParada
    /\ CelescParada
    /\ UploadParado
    /\ HistParado
    /\ ConcParada
    /\ relogio = 1
    /\ entidades = <<>>
    /\ sessao = {}
    /\ ultimaOp = [op |-> "nenhuma"]

\* the factory of a class
CriarEntidadeAc ==
    /\ Len(entidades) < MaxEntidades
    /\ \E classe \in Classes :
        \E nova \in {NovaEntidade(classe, Len(entidades) + 1, relogio)} :
            /\ entidades' = Append(entidades, nova)
            /\ ultimaOp' = Operacao("criar", nova.id, nova, FALSE, FALSE, "nenhuma")
    /\ UNCHANGED <<relogio, sessao, varsSync, varsValor, varsRef, varsData, varsLoc, varsSamae, varsCelesc, varsUpload, varsHist, varsConc>>

\* time passes between two operations
PassarTempoAc ==
    /\ relogio < MaxRelogio
    /\ relogio' = relogio + 1
    /\ UNCHANGED <<entidades, sessao, ultimaOp, varsSync, varsValor, varsRef, varsData, varsLoc, varsSamae, varsCelesc, varsUpload, varsHist, varsConc>>

\* atualizar on an entity
AtualizarAc ==
    /\ \E i \in 1..Len(entidades) :
        \E args \in ArgsAtualizar(entidades[i].classe) :
            \E r \in {Atualizar(entidades[i], args, relogio)} :
                /\ entidades' = [entidades EXCEPT ![i] = r.e]
                /\ ultimaOp' = Operacao("atualizar", i, entidades[i],
                                        \A k \in 1..Len(args) : args[k] = Omitido,
                                        i \in sessao, r.exc)
    /\ UNCHANGED <<relogio, sessao, varsSync, varsValor, varsRef, varsData, varsLoc, varsSamae, varsCelesc, varsUpload, varsHist, varsConc>>

\* patch on an entity of a class that has it
PatchAc ==
    /\ \E i \in 1..Len(entidades) :
        /\ entidades[i].classe \notin ClassesDeConta
        /\ \E args \in ArgsPatch(entidades[i].classe) :
            \E r \in {Patch(entidades[i], args, relogio)} :
                /\ entidades' = [entidades EXCEPT ![i] = r.e]
                /\ ultimaOp' = Operacao("patch", i, entidades[i],
                                        \A k \in 1..Len(args) : args[k] = Omitido,
                                        i \in sessao, r.exc)
    /\ UNCHANGED <<relogio, sessao, varsSync, varsValor, varsRef, varsData, varsLoc, varsSamae, varsCelesc, varsUpload, varsHist, varsConc>>

\* ContaLuz.delete, ContaAgua.deletar, Expense.delete, ExpenseVariable.deletar,
\* Transaction.deletar
DeletarAc ==
    /\ \E i \in 1..Len(entidades) :
        /\ entidades' = [entidades EXCEPT ![i] = RegistrarExclusao(entidades[i], relogio)]
        /\ ultimaOp' = Operacao("deletar", i, entidades[i], FALSE, i \in sessao, "nenhuma")
    /\ UNCHANGED <<relogio, sessao, varsSync, varsValor, varsRef, varsData, varsLoc, varsSamae, varsCelesc, varsUpload, varsHist, varsConc>>

\* ContaLuzRepository.add, ContaAguaRepository.add, and the flush that
\* inserts the row
RepositorioAddAc ==
    /\ \E i \in 1..Len(entidades) :
        /\ entidades[i].classe \in ClassesDeConta
        /\ i \notin sessao
        /\ sessao' = sessao \cup {i}
        /\ ultimaOp' = Operacao("add", i, entidades[i], FALSE, FALSE, "nenhuma")
    /\ UNCHANGED <<relogio, entidades, varsSync, varsValor, varsRef, varsData, varsLoc, varsSamae, varsCelesc, varsUpload, varsHist, varsConc>>

\* ContaLuzRepository.delete, ContaAguaRepository.delete on a persisted
\* entity, and the flush that deletes the row
RepositorioDeleteAc ==
    /\ \E i \in sessao :
        /\ entidades' = [entidades EXCEPT ![i] = DeletedAtOuNone(entidades[i])]
        /\ sessao' = sessao \ {i}
        /\ ultimaOp' = Operacao("repositorio.delete", i, entidades[i], FALSE, TRUE, "nenhuma")
    /\ UNCHANGED <<relogio, varsSync, varsValor, varsRef, varsData, varsLoc, varsSamae, varsCelesc, varsUpload, varsHist, varsConc>>

NextEnt ==
    \/ CriarEntidadeAc
    \/ PassarTempoAc
    \/ AtualizarAc
    \/ PatchAc
    \/ DeletarAc
    \/ RepositorioAddAc
    \/ RepositorioDeleteAc

SpecEnt == InitEnt /\ [][NextEnt]_vars

\* ---------------------------------------------- uploads and temporary files
\* the most uploads in one request
MaxUploads == 3

\* an upload: a PDF that is written, a file of another type, or a PDF whose
\* copy to the temporary file raises
TiposDeEnvio == {"pdf", "outro", "falha"}

\* how the sync call may end: its summary, the two database errors the
\* handler translates, any other exception
FinsDoSync == {"resumo", "OperationalError", "ProgrammingError", "outra"}

\* the status the handler answers with after the cleaning
StatusDoFim(fim) ==
    CASE fim = "resumo" -> 200
      [] fim = "OperationalError" -> 503
      [] OTHER -> 500

\* the name tempfile.NamedTemporaryFile gives to the file of the upload k
Temporario(k) == k

Evento(tipo, arquivo) == [tipo |-> tipo, arquivo |-> arquivo]

InitUpload ==
    /\ SyncParado
    /\ ValorParado
    /\ RefParada
    /\ DataParada
    /\ LocParada
    /\ SamaeParada
    /\ CelescParada
    /\ EntParada
    /\ HistParado
    /\ ConcParada
    /\ envios \in UNION {[1..n -> TiposDeEnvio] : n \in 0..MaxUploads}
    /\ etapa = "recebido"
    /\ posicao = 1
    /\ caminhosTemporarios = <<>>
    /\ arquivosInvalidos = <<>>
    /\ disco = {}
    /\ eventos = <<>>
    /\ resultadoSync = "nenhum"
    /\ resposta = 0

\* "if not files": the request without files is answered with 400
ReceberAc ==
    /\ etapa = "recebido"
    /\ IF envios = <<>>
       THEN etapa' = "respondido" /\ resposta' = 400
       ELSE etapa' = "gravando" /\ UNCHANGED resposta
    /\ UNCHANGED <<envios, posicao, caminhosTemporarios, arquivosInvalidos, disco, eventos, resultadoSync, varsSync, varsValor, varsRef, varsData, varsLoc, varsSamae, varsCelesc, varsEnt, varsHist, varsConc>>

\* one turn of the loop over the uploads: the file of another type is
\* listed as invalid; the temporary file is created and receives the copy,
\* and its name is kept; a copy that raises leaves the file created, its name
\* not kept, and the request
GravarAc ==
    /\ etapa = "gravando"
    /\ posicao <= Len(envios)
    /\ CASE envios[posicao] = "outro" ->
                /\ arquivosInvalidos' = Append(arquivosInvalidos, posicao)
                /\ posicao' = posicao + 1
                /\ UNCHANGED <<caminhosTemporarios, disco, eventos, etapa, resposta>>
         [] envios[posicao] = "pdf" ->
                /\ disco' = disco \cup {Temporario(posicao)}
                /\ eventos' = Append(eventos, Evento("criar", Temporario(posicao)))
                /\ caminhosTemporarios' = Append(caminhosTemporarios, Temporario(posicao))
                /\ posicao' = posicao + 1
                /\ UNCHANGED <<arquivosInvalidos, etapa, resposta>>
         [] envios[posicao] = "falha" ->
                /\ disco' = disco \cup {Temporario(posicao)}
                /\ eventos' = Append(eventos, Evento("criar", Temporario(posicao)))
                /\ etapa' = "respondido"
                /\ resposta' = 500
                /\ UNCHANGED <<caminhosTemporarios, arquivosInvalidos, posicao>>
    /\ UNCHANGED <<envios, resultadoSync, varsSync, varsValor, varsRef, varsData, varsLoc, varsSamae, varsCelesc, varsEnt, varsHist, varsConc>>

\* after the loop: 400 when every upload was invalid, else the sync call starts
IniciarSyncAc ==
    /\ etapa = "gravando"
    /\ posicao > Len(envios)
    /\ IF arquivosInvalidos # <<>> /\ caminhosTemporarios = <<>>
       THEN /\ etapa' = "respondido"
            /\ resposta' = 400
            /\ UNCHANGED eventos
       ELSE /\ etapa' = "sincronizando"
            /\ eventos' = Append(eventos, Evento("sync_inicio", 0))
            /\ UNCHANGED resposta
    /\ UNCHANGED <<envios, posicao, caminhosTemporarios, arquivosInvalidos, disco, resultadoSync, varsSync, varsValor, varsRef, varsData, varsLoc, varsSamae, varsCelesc, varsEnt, varsHist, varsConc>>

\* servico.sync_from_pdfs(caminhos_temporarios) returns or raises
TerminarSyncAc ==
    /\ etapa = "sincronizando"
    /\ \E fim \in FinsDoSync : resultadoSync' = fim
    /\ eventos' = Append(eventos, Evento("sync_fim", 0))
    /\ etapa' = "limpando"
    /\ posicao' = 1
    /\ UNCHANGED <<envios, caminhosTemporarios, arquivosInvalidos, disco, resposta, varsSync, varsValor, varsRef, varsData, varsLoc, varsSamae, varsCelesc, varsEnt, varsHist, varsConc>>

\* one turn of the loop of the finally block: unlink removes the file, or
\* raises OSError, which is suppressed
RemoverTemporarioAc ==
    /\ etapa = "limpando"
    /\ posicao <= Len(caminhosTemporarios)
    /\ eventos' = Append(eventos, Evento("unlink", caminhosTemporarios[posicao]))
    /\ \E removeu \in BOOLEAN :
        disco' = IF removeu THEN disco \ {caminhosTemporarios[posicao]} ELSE disco
    /\ posicao' = posicao + 1
    /\ UNCHANGED <<envios, etapa, caminhosTemporarios, arquivosInvalidos, resultadoSync, resposta, varsSync, varsValor, varsRef, varsData, varsLoc, varsSamae, varsCelesc, varsEnt, varsHist, varsConc>>

\* after the finally block: the summary, or the error of the sync call
ResponderAc ==
    /\ etapa = "limpando"
    /\ posicao > Len(caminhosTemporarios)
    /\ etapa' = "respondido"
    /\ resposta' = StatusDoFim(resultadoSync)
    /\ UNCHANGED <<envios, posicao, caminhosTemporarios, arquivosInvalidos, disco, eventos, resultadoSync, varsSync, varsValor, varsRef, varsData, varsLoc, varsSamae, varsCelesc, varsEnt, varsHist, varsConc>>

NextUpload ==
    \/ ReceberAc
    \/ GravarAc
    \/ IniciarSyncAc
    \/ TerminarSyncAc
    \/ RemoverTemporarioAc
    \/ ResponderAc

SpecUpload == InitUpload /\ [][NextUpload]_vars

\* ---------------------------------------------------------------- claims

\* the keys of referencias_coletadas
ChavesColetadas == {coletadas[i].chave : i \in 1..Len(coletadas)}

\* the reference texts of the entities queued in the session, in queue order
ReferenciasDaFila == [i \in 1..Len(fila) |-> ReferenciaDe(servico, fila[i])]

\* the errors of the persistence boundary
ErrosDePersistencia == {"OperationalError"}

\* the paths among the first n of the batch whose extraction fails, in order
CaminhosComFalha(n) ==
    SelectSeq(SubSeq(lote, 1, n), LAMBDA c : ~Extrair(servico, c, 0).ok)

\* the entities of the first n paths of the batch, in processing order
RECURSIVE ContasProcessadas(_)
ContasProcessadas(n) ==
    IF n = 0 THEN <<>>
    ELSE ContasProcessadas(n - 1) \o
         (IF Extrair(servico, lote[n], 0).ok THEN Extrair(servico, lote[n], 0).contas
          ELSE <<>>)

\* the last entity of p with the reference chave
UltimaCom(p, chave) ==
    p[MaxOf({k \in 1..Len(p) : ReferenciaDe(servico, p[k]) = chave})]

\* C1 (as amended): when a sync call returns after a committed call on the same
\* batch, the earlier call created exactly the distinct references it found
\* that were not already known (all N of them when none was known), and the
\* later call finds the same N references, creates none, skips N and queues no
\* row for the store.
C1Idempotencia ==
    (pc = "retornou" /\ anterior.valido) =>
        /\ anterior.resumo.created = Cardinality(anterior.chaves \ anterior.existentes)
        /\ (anterior.chaves \cap anterior.existentes = {} =>
                anterior.resumo.created = anterior.resumo.distinct_references_found)
        /\ resumo.distinct_references_found = anterior.resumo.distinct_references_found
        /\ resumo.created = 0
        /\ resumo.skipped = resumo.distinct_references_found
        /\ resumo.created_references = <<>>
        /\ fila = <<>>

\* a second call returns after a committed first call that created rows
C1Witness ==
    /\ pc = "retornou"
    /\ anterior.valido
    /\ anterior.resumo.created > 0
    /\ resumo.skipped > 0

\* C1 (as written): for any initial store, the first call on a batch creates N
\* rows (N = distinct references found) and the second call on the same batch
\* creates 0, skips N and adds no row.
C1Original ==
    /\ (pc = "ocioso" /\ rodadas = 1 /\ anterior.valido) =>
            anterior.resumo.created = anterior.resumo.distinct_references_found
    /\ (pc = "retornou" /\ anterior.valido) =>
            /\ resumo.created = 0
            /\ resumo.skipped = resumo.distinct_references_found
            /\ fila = <<>>

\* C2: every path whose extraction, table lookup or value parsing fails is
\* recorded as failed and the loop goes on; no failure of a document leaves
\* sync_from_pdfs as an exception.
C2DocumentoRuimNaoAborta ==
    /\ pc = "extrair" => falhas = CaminhosComFalha(idx - 1)
    /\ pc = "erro" => excecao \in ErrosDePersistencia

\* C3: referencias_coletadas holds one entry per distinct reference of the rows
\* processed so far, under the normalized reference text, and the entry is the
\* row processed last with that reference; the rows offered to add_many are
\* entries of the mapping, one per reference.
C3UltimaLinhaVence ==
    pc \in {"extrair", "retornou"} =>
        \E p \in {ContasProcessadas(idx - 1)} :
            /\ \A i, j \in 1..Len(coletadas) :
                    coletadas[i].chave = coletadas[j].chave => i = j
            /\ ChavesColetadas = {ReferenciaDe(servico, p[k]) : k \in 1..Len(p)}
            /\ \A i \in 1..Len(coletadas) :
                    /\ ReferenciaDe(servico, coletadas[i].conta) = coletadas[i].chave
                    /\ coletadas[i].conta.valor = UltimaCom(p, coletadas[i].chave).valor
            /\ \A i, j \in 1..Len(fila) :
                    ReferenciasDaFila[i] = ReferenciasDaFila[j] => i = j
            /\ \A i \in 1..Len(fila) :
                    \E k \in 1..Len(coletadas) : coletadas[k].conta = fila[i]

\* a call returned after several rows shared a reference, and offered a row
C3Witness ==
    /\ pc = "retornou"
    /\ linhas > Len(coletadas)
    /\ fila # <<>>

\* C4: no queued entity has a reference returned by list_existing_references;
\* when the call returns, the queued entities are exactly one per collected
\* reference that was not known, and created_references lists those references.
C4SomenteNovas ==
    /\ \A i \in 1..Len(fila) : ReferenciasDaFila[i] \notin existentes
    /\ pc = "retornou" =>
        /\ {ReferenciasDaFila[i] : i \in 1..Len(fila)} = ChavesColetadas \ existentes
        /\ Len(fila) = Cardinality(ChavesColetadas \ existentes)
        /\ resumo.created_references = ReferenciasDaFila

\* a call returned with a known reference skipped and a new one queued
C4Witness ==
    /\ pc = "retornou"
    /\ ChavesColetadas \cap existentes # {}
    /\ fila # <<>>

\* the identities of the summary of a call that returned
C5Contabilidade ==
    pc = "retornou" =>
        /\ resumo.pdf_count = Len(lote)
        /\ resumo.files_processed + resumo.files_failed = resumo.pdf_count
        /\ resumo.failed_files = CaminhosComFalha(Len(lote))
        /\ resumo.files_failed = Len(resumo.failed_files)
        /\ resumo.skipped = resumo.distinct_references_found - resumo.created
        /\ resumo.created = Len(resumo.created_references)
        /\ resumo.created = Len(fila)
        /\ resumo.rows_parsed >= resumo.distinct_references_found
        /\ resumo.distinct_references_found >= resumo.created
        /\ resumo.created >= 0

\* C5: the summary of every batch satisfies the accounting identities, and a
\* batch with good and bad documents completes: it is not ended by the
\* exception of a document.
C5ResumoDeTodoLote ==
    /\ C5Contabilidade
    /\ (pc = "ocioso" /\ rodadas > 0 /\ excecao \notin ErrosDePersistencia) =>
            (retornou /\ desfecho = "commit")

\* C6: an error of list_existing_references or add_many leaves the call with
\* no summary; a call ended by an exception is rolled back and the table is
\* what it was when the session was opened; the table changes only by the
\* commit of a call that returned.
C6ErroDePersistenciaFatal ==
    /\ (pc = "erro" /\ excecao \in ErrosDePersistencia) => (~retornou /\ resumo = ResumoVazio)
    /\ (pc = "ocioso" /\ excecao # "nenhuma") => (desfecho = "rollback" /\ loja = lojaAntes)
    /\ (pc = "ocioso" /\ desfecho = "commit") => (retornou /\ excecao = "nenhuma")
    /\ (pc = "ocioso" /\ loja # lojaAntes) => (desfecho = "commit" /\ retornou)
    /\ (pc # "ocioso" /\ rodadas > 0) => loja = lojaAntes

\* a call that found new rows was ended by a persistence error and rolled back
C6Witness ==
    /\ pc = "ocioso"
    /\ excecao \in ErrosDePersistencia
    /\ ~retornou
    /\ desfecho = "rollback"
    /\ rodadas > 0

\* the raw amount b denotes a finite number once cleaned
EhNumeroFinito(b) ==
    CASE b.tipo = "int" -> TRUE
      [] b.tipo = "float" -> b.dec.cls = "fin"
      [] b.tipo = "str" ->
            /\ DecimalDeTexto(NormalizarSeparadores(RemoverEspacosEMoeda(Strip(b.texto)))).ok
            /\ DecimalDeTexto(NormalizarSeparadores(RemoverEspacosEMoeda(Strip(b.texto)))).valor.cls = "fin"
      [] OTHER -> FALSE

\* an amount with exactly two decimals
DuasCasas(d) == d.cls = "fin" /\ d.exp = -2

\* C7: the cents of every instance made from an accepted raw amount give back,
\* through criar_de_centavos, an instance with the same value; and the cents
\* of an instance made from the integer c are c.
C7IdaEVolta ==
    /\ (ultima.op = "para_banco" /\ valores[ultima.alvo].de = "bruto") => ultima.ok
    /\ (ultima.op = "criar_de_centavos" /\ ultima.origem # 0
            /\ valores[ultima.origem].de = "bruto") =>
            (ultima.ok /\ ultima.res = valores[ultima.origem].valor)
    /\ (ultima.op = "para_banco" /\ valores[ultima.alvo].de = "centavos") =>
            (ultima.ok /\ ultima.n = valores[ultima.alvo].c)

\* C8: a raw amount that is a finite number after cleaning is accepted, with
\* "." as thousands separator and "," as decimal separator when both occur;
\* any other raw amount, or an unsupported type, fails with ValueError and
\* with no other exception.
C8SomenteValueError ==
    ultima.op \in {"criar_de_bruto", "atualizar_valor"} =>
        /\ EhNumeroFinito(entradaBruta) => ultima.ok
        /\ ~EhNumeroFinito(entradaBruta) => (~ultima.ok /\ ultima.exc = "ValueError")
        /\ (ultima.ok /\ entradaBruta = BrutoStr(V123456)) => ultima.res = DecFin(123456, -2)
        /\ (ultima.ok /\ entradaBruta = BrutoStr(V4220)) => ultima.res = DecFin(4220, -2)

\* C9: every instance, and the result of every operation, holds an amount with
\* exactly two decimals, and the instance an operation was called on keeps
\* the value it had.
C9SempreDuasCasas ==
    /\ \A i \in 1..Len(valores) : DuasCasas(valores[i].valor)
    /\ (ultima.ok /\ ultima.op \notin {"nenhuma", "para_banco"}) => DuasCasas(ultima.res)
    /\ ultima.alvo # 0 => valores[ultima.alvo].valor = ultima.antes

\* the positions of u where two digits, "/" and four digits stand
PosicoesMMYYYY(u) ==
    {i \in 1..(Len(u) - 6) :
        /\ \A j \in {i, i + 1, i + 3, i + 4, i + 5, i + 6} : u[j] \in Digitos
        /\ u[i + 2] = "/"}

\* those not adjacent to a letter, a digit or an underscore
PosicoesDelimitadas(u) ==
    {i \in PosicoesMMYYYY(u) :
        /\ (i = 1 \/ ~IsWord(u[i - 1]))
        /\ (i + 6 = Len(u) \/ ~IsWord(u[i + 7]))}

\* the month at position i of u
MesEm(u, i) == 10 * DigitVal(u[i]) + DigitVal(u[i + 1])

\* the outcome the claim gives for the cleaned text u with the matches M
ReferenciaEsperada(u, M, r) ==
    IF M = {} \/ MesEm(u, MinOf(M)) \notin 1..12
    THEN ~r.ok /\ r.exc = "ValueError"
    ELSE /\ r.ok
         /\ r.mes = MesEm(u, MinOf(M))
         /\ r.ano = DigitsToNat(SubSeq(u, MinOf(M) + 3, MinOf(M) + 6))
         /\ ~Contem(r.referencia, "(")

\* C10 (as amended): with the trailing "(Atual)" marker removed, the first
\* two-digits "/" four-digits match that is delimited by word boundaries gives
\* the month and the year; the construction fails with ValueError exactly when
\* there is no such delimited match or its month is outside 1..12; the marker
\* is not part of the resulting text.
C10PrimeiroCasamentoDelimitado ==
    refVO.feito =>
        \E u \in {RemoverSufixoAtual(Strip(textoRef))} :
            ReferenciaEsperada(u, PosicoesDelimitadas(u), refVO.r)

\* a text with a prefix and the marker was accepted
C10Witness ==
    /\ refVO.feito
    /\ refVO.r.ok
    /\ refVO.r.referencia = T0925
    /\ textoRef = <<" ">> \o T0925 \o <<" ", "(", "A", "t", "u", "a", "l", ")", " ">>

\* C10 (as written): the first two-digits "/" four-digits match anywhere in
\* the text gives the month and the year, and the construction fails exactly
\* when no such pattern exists or its month is outside 1..12.
C10Original ==
    refVO.feito =>
        \E u \in {RemoverSufixoAtual(Strip(textoRef))} :
            ReferenciaEsperada(u, PosicoesMMYYYY(u), refVO.r)

\* C11: every accepted text gives a year of four digits (1000..9999) and a
\* canonical text of two digits, "/" and four digits, and the first-of-month
\* date of para_banco is built from it without error.
C11AnoDeQuatroDigitos ==
    /\ (refVO.feito /\ refVO.r.ok) =>
            /\ refVO.r.ano \in 1000..9999
            /\ Len(refVO.r.referencia) = 7
            /\ PosicoesMMYYYY(refVO.r.referencia) = {1}
    /\ dataBanco.feito =>
            /\ dataBanco.r.ok
            /\ dataBanco.r.data = <<refVO.r.ano, refVO.r.mes, 1>>

\* a day, month and year of the Gregorian calendar
EhDataReal(d, m, a) ==
    /\ a >= 1 /\ m \in 1..12 /\ d \in 1..31
    /\ (m \in {4, 6, 9, 11} => d <= 30)
    /\ (m = 2 => d <= 29)
    /\ ((m = 2 /\ d = 29) => (a % 400 = 0 \/ (a % 4 = 0 /\ a % 100 # 0)))

\* the inputs the claim lists as rejected
DatasRejeitadas ==
    {<<"2", "9", "/", "0", "2", "/", "2", "0", "2", "1">>,
     <<"2", "9", "/", "0", "2", "/", "1", "9", "0", "0">>,
     <<"3", "1", "/", "0", "2", "/", "2", "0", "2", "1">>,
     <<"3", "1", "/", "0", "4", "/", "2", "0", "2", "5">>,
     <<"3", "2", "/", "0", "1", "/", "2", "0", "2", "0">>,
     <<"0", "0", "/", "1", "2", "/", "2", "0", "2", "0">>,
     <<"1", "2", "/", "0", "0", "/", "2", "0", "2", "0">>,
     <<"1", "2", "/", "1", "3", "/", "2", "0", "2", "0">>,
     <<"1", "/", "1", "/", "2", "0">>,
     <<"2", "0", "2", "5", "-", "0", "9", "-", "0", "1">>,
     <<"a", "b", "c">>}

\* the inputs the claim lists as accepted
DatasAceitas ==
    {<<"2", "9", "/", "0", "2", "/", "2", "0", "2", "4">>,
     <<"2", "9", "/", "2", "/", "2", "0", "0", "0">>,
     <<"3", "1", "/", "1", "2", "/", "2", "0", "2", "5">>,
     <<"1", "/", "9", "/", "2", "0", "2", "5">>}

\* C12: a construction that succeeds holds a real Gregorian date, its
\* canonical text is two digits, "/", two digits, "/" and four digits, its ISO
\* text is four digits, "-", two digits, "-" and two digits, and both texts
\* are those of the day, month and year held; 29/02 of a leap year is
\* accepted; 29/02 of a common year, day 31 in a shorter month, day or month
\* 0, day 32, month 13, a two-digit year, ISO input and text without a date
\* are rejected with ValueError.
C12SomenteDatasReais ==
    dataVO.feito =>
        /\ dataVO.r.ok =>
            /\ EhDataReal(dataVO.r.dia, dataVO.r.mes, dataVO.r.ano)
            /\ Len(dataVO.r.data) = 10 /\ Len(dataVO.r.data_iso) = 10
            /\ \A j \in {1, 2, 4, 5, 7, 8, 9, 10} : dataVO.r.data[j] \in Digitos
            /\ dataVO.r.data[3] = "/" /\ dataVO.r.data[6] = "/"
            /\ \A j \in {1, 2, 3, 4, 6, 7, 9, 10} : dataVO.r.data_iso[j] \in Digitos
            /\ dataVO.r.data_iso[5] = "-" /\ dataVO.r.data_iso[8] = "-"
            /\ DigitsToNat(SubSeq(dataVO.r.data, 1, 2)) = dataVO.r.dia
            /\ DigitsToNat(SubSeq(dataVO.r.data, 4, 5)) = dataVO.r.mes
            /\ DigitsToNat(SubSeq(dataVO.r.data, 7, 10)) = dataVO.r.ano
            /\ DigitsToNat(SubSeq(dataVO.r.data_iso, 1, 4)) = dataVO.r.ano
            /\ DigitsToNat(SubSeq(dataVO.r.data_iso, 6, 7)) = dataVO.r.mes
            /\ DigitsToNat(SubSeq(dataVO.r.data_iso, 9, 10)) = dataVO.r.dia
        /\ Strip(textoData) \in DatasRejeitadas =>
            (~dataVO.r.ok /\ dataVO.r.exc = "ValueError")
        /\ Strip(textoData) \in DatasAceitas => dataVO.r.ok

\* the letters of the model, lower case and upper case in the same order
LetrasMinusculas ==
    <<"a", "b", "c", "d", "e", "f", "g", "h", "i", "j", "k", "l", "m", "n", "o", "p",
      "q", "r", "s", "t", "u", "v", "w", "x", "y", "z">>

LetrasMaiusculas ==
    <<"A", "B", "C", "D", "E", "F", "G", "H", "I", "J", "K", "L", "M", "N", "O", "P",
      "Q", "R", "S", "T", "U", "V", "W", "X", "Y", "Z">>

\* the ways of writing one letter, with or without accent, in either case
Grafias ==
    {{LetrasMinusculas[i], LetrasMaiusculas[i]} : i \in 1..26}
        \cup {{"e", "E", "ê", "Ê"}, {"o", "O", "ó", "Ó"}, {"u", "U", "ú", "Ú"}}

\* c and d are the same character, or the same letter when accents and case
\* are ignored
MesmoCaractere(c, d, ignorar) ==
    c = d \/ (ignorar /\ \E g \in Grafias : c \in g /\ d \in g)

\* the text holds the keyword at some position
TextoTemPalavra(texto, palavra, ignorar) ==
    \E o \in 0..(Len(texto) - Len(palavra)) :
        \A k \in 1..Len(palavra) : MesmoCaractere(texto[o + k], palavra[k], ignorar)

\* some row of the table holds all the keywords, or one of them
TabelaQualifica(t, palavras, ignorar, todas) ==
    \E l \in 1..Len(t.linhas) :
        \E txt \in {LinhaTexto(t.linhas[l], FALSE)} :
            IF todas
            THEN \A k \in 1..Len(palavras) : TextoTemPalavra(txt, palavras[k], ignorar)
            ELSE \E k \in 1..Len(palavras) : TextoTemPalavra(txt, palavras[k], ignorar)

\* the positions of the tables of the search that qualify
TabelasQueQualificam ==
    {i \in 1..Len(busca.tabelas) :
        TabelaQualifica(busca.tabelas[i], busca.palavras_chave, busca.normalizar,
                        busca.exigir_todas)}

\* C13: the search returns the first table, in input order, with a row whose
\* cells joined by spaces hold all the keywords (exigir_todas) or at least one
\* of them, accents and case being ignored when normalizar is set; it returns
\* None when no table qualifies.
C13PrimeiraTabelaQueCasa ==
    encontrada.feito =>
        IF TabelasQueQualificam = {} THEN encontrada.indice = 0
        ELSE encontrada.indice = MinOf(TabelasQueQualificam)

\* the second table was returned for keywords all required, found only
\* because accents and case were ignored
C13Witness ==
    /\ encontrada.feito
    /\ encontrada.indice = 2
    /\ busca.normalizar /\ busca.exigir_todas
    /\ Len(busca.palavras_chave) = 2
    /\ ~TabelaQualifica(busca.tabelas[2], busca.palavras_chave, FALSE, TRUE)

\* the first-column texts of the table the extractor works on
PrimeirosTextos ==
    [l \in 1..Len(tabelaSamae.linhas) |-> AsStr(DropNaColunas(tabelaSamae).linhas[l][1])]

\* the rows whose first-column text holds the marker, accents and case ignored
LinhasMarcadas ==
    {l \in 1..Len(PrimeirosTextos) : TextoTemPalavra(PrimeirosTextos[l], Atual, TRUE)}

\* the rows whose first-column text holds a month/year
LinhasLegiveis ==
    {l \in 1..Len(PrimeirosTextos) : PosicoesDelimitadas(PrimeirosTextos[l]) # {}}

\* YYYY*100+MM of the first month/year of a text
ChaveDeOrdem(u) ==
    DigitsToNat(SubSeq(u, MinOf(PosicoesDelimitadas(u)) + 3, MinOf(PosicoesDelimitadas(u)) + 6)) * 100
        + MesEm(u, MinOf(PosicoesDelimitadas(u)))

\* the extraction got past the detection of the amount column
ColunaDeValorAchada ==
    /\ linhaAtual.feito
    /\ DetectarColunaValor(DropNaColunas(tabelaSamae)) > 0

\* the extraction got past the selection of the row
LinhaSelecionada ==
    /\ ColunaDeValorAchada
    /\ SelecionarLinhaAtual(DropNaColunas(tabelaSamae)).ok

\* C14: the output is one row of the table; when some row is marked "(atual)"
\* in its first column the first such row is selected; otherwise the row
\* selected has a month/year in its first column and none has a greater
\* YYYY*100+MM; the selection fails with the no-current-reference error
\* exactly when no row is marked and no row has a month/year.
C14LinhaAtual ==
    ColunaDeValorAchada =>
        /\ linhaAtual.r.ok =>
            /\ linhaAtual.r.indice \in 1..Len(tabelaSamae.linhas)
            /\ LinhasMarcadas # {} => linhaAtual.r.indice = MinOf(LinhasMarcadas)
            /\ LinhasMarcadas = {} =>
                /\ linhaAtual.r.indice \in LinhasLegiveis
                /\ \A k \in LinhasLegiveis :
                        ChaveDeOrdem(PrimeirosTextos[linhaAtual.r.indice])
                            >= ChaveDeOrdem(PrimeirosTextos[k])
        /\ (LinhasMarcadas = {} /\ LinhasLegiveis = {}) <=>
                (~linhaAtual.r.ok /\ linhaAtual.r.mensagem = "referencia atual")

\* with no row marked, the row of the latest month/year was selected though
\* it is not the last row
C14Witness ==
    /\ ColunaDeValorAchada
    /\ linhaAtual.r.ok
    /\ LinhasMarcadas = {}
    /\ Cardinality(LinhasLegiveis) = 2
    /\ linhaAtual.r.indice = 1
    /\ PrimeirosTextos[1] = T0825

\* C15: the reference emitted is the first month/year of the first cell of
\* the selected row followed by " (Atual)", whether or not that cell carried
\* the marker; the extraction fails with the reference-not-found error when
\* that cell has no month/year.
C15ReferenciaComMarcador ==
    LinhaSelecionada =>
        \E u \in {PrimeirosTextos[SelecionarLinhaAtual(DropNaColunas(tabelaSamae)).indice]} :
            /\ linhaAtual.r.ok =>
                    /\ PosicoesDelimitadas(u) # {}
                    /\ linhaAtual.r.referencia =
                            SubSeq(u, MinOf(PosicoesDelimitadas(u)), MinOf(PosicoesDelimitadas(u)) + 6)
                                \o <<" ", "(", "A", "t", "u", "a", "l", ")">>
            /\ PosicoesDelimitadas(u) = {} =>
                    (~linhaAtual.r.ok /\ linhaAtual.r.mensagem = "referencia nao identificada")

\* a row without the marker was selected and its reference carries it
C15Witness ==
    /\ LinhaSelecionada
    /\ linhaAtual.r.ok
    /\ LinhasMarcadas = {}
    /\ linhaAtual.r.referencia = T0825Atual

\* the header row and the data rows the assembly worked with
RotulosBrutos == tabelaBruta.linhas[tabelaFinal.indices[1] + 1]

DadosBrutos ==
    SubSeq(tabelaBruta.linhas, tabelaFinal.indices[2] + 1, Len(tabelaBruta.linhas))

\* the composite text of a data row in the columns chosen for it
TextoComposto(linha) ==
    TextoNormalizado(TextoDaCandidata(linha,
        MelhorCandidata(Tabela(RotulosBrutos, DadosBrutos), Candidatas(Len(RotulosBrutos)))))

\* the data rows whose composite cell matches date, document, number, number
LinhasCompostas == SelectSeq(DadosBrutos, LAMBDA linha : CasaComposta(TextoComposto(linha)))

\* a label that reads "total a pagar", whatever its case and accents
EhTotalAPagar(rotulo) ==
    ContemTexto(SemAcentosMinusculo(AsStr(rotulo)), <<"t", "o", "t", "a", "l", " ", "a", " ", "p", "a", "g", "a", "r">>)

\* the cells of the output under the label "Valor Total"
ValoresTotais ==
    {tabelaFinal.r.linhas[l][j] :
        l \in 1..Len(tabelaFinal.r.linhas),
        j \in {k \in 1..Len(tabelaFinal.r.colunas) : tabelaFinal.r.colunas[k] = RotuloValorTotal}}

\* C16: in the table the electric extractor returns, every data row whose
\* composite cell matches the pattern gives exactly one row, in order, with its
\* date in Data; no row has a null Data; a "Total a Pagar" column of the header
\* is labelled "Valor Total"; no value under "Valor Total" holds "R$" or
\* surrounding whitespace, and "R$ 123,45" and " R$ 100,00 " come out as
\* "123,45" and "100,00"
C16SaidaCelesc ==
    (tabelaFinal.feito /\ tabelaFinal.r.ok) =>
        /\ LinhasCompostas # <<>> =>
                /\ Len(tabelaFinal.r.linhas) = Len(LinhasCompostas)
                /\ \A k \in 1..Len(LinhasCompostas) :
                        tabelaFinal.r.linhas[k][1] = SubSeq(TextoComposto(LinhasCompostas[k]), 1, 10)
        /\ \A l \in 1..Len(tabelaFinal.r.linhas) : tabelaFinal.r.linhas[l][1] # NaN
        /\ \A j \in 1..Len(RotulosBrutos) :
                EhTotalAPagar(RotulosBrutos[j]) =>
                    /\ \E k \in 1..Len(tabelaFinal.r.colunas) :
                            tabelaFinal.r.colunas[k] = RotuloValorTotal
                    /\ \A k \in 1..Len(tabelaFinal.r.colunas) :
                            ~EhTotalAPagar(tabelaFinal.r.colunas[k])
        /\ \A v \in ValoresTotais : ~ContemTexto(v, <<"R", "$">>) /\ Strip(v) = v
        /\ \A k \in 1..Len(LinhasCompostas) :
                (Len(RotulosBrutos) = 4 /\ EhTotalAPagar(RotulosBrutos[4]) /\ LinhasCompostas # <<>>) =>
                    /\ LinhasCompostas[k][4] = <<"R", "$", " ", "1", "2", "3", ",", "4", "5">>
                            => tabelaFinal.r.linhas[k][Len(tabelaFinal.r.colunas)] = V12345
                    /\ LinhasCompostas[k][4] = <<" ", "R", "$", " ", "1", "0", "0", ",", "0", "0", " ">>
                            => tabelaFinal.r.linhas[k][Len(tabelaFinal.r.colunas)] = V10000

\* the rows of the raw table, counted from 0, that hold the four terms when
\* accents and case are ignored
LinhasComOsTermos ==
    {i \in 0..(Len(tabelaBruta.linhas) - 1) :
        \A k \in 1..Len(TermosCabecalho) :
            TextoTemPalavra(LinhaTexto(tabelaBruta.linhas[i + 1], FALSE), TermosCabecalho[k], TRUE)}

\* the first of them
PrimeiraComOsTermos == MinOf(LinhasComOsTermos)

\* C20 as stated: whenever some row holds the four terms, the indices are
\* those of the first such row and of the row after it; otherwise (4, 5)
C20Original ==
    tabelaFinal.feito =>
        tabelaFinal.indices =
            IF LinhasComOsTermos # {}
            THEN <<PrimeiraComOsTermos, PrimeiraComOsTermos + 1>>
            ELSE <<4, 5>>

\* C20: the indices are those of the first row that holds the four terms and
\* of the row after it when that first row is not the last row of the table;
\* they are the default (4, 5) when no row holds the four terms or the first
\* such row is the last row
C20CabecalhoSeguidoDeLinha ==
    tabelaFinal.feito =>
        tabelaFinal.indices =
            IF LinhasComOsTermos # {} /\ PrimeiraComOsTermos + 1 < Len(tabelaBruta.linhas)
            THEN <<PrimeiraComOsTermos, PrimeiraComOsTermos + 1>>
            ELSE <<4, 5>>

\* a header found on the second row with data rows under it
C20Witness ==
    /\ tabelaFinal.feito
    /\ LinhasComOsTermos = {1}
    /\ Len(tabelaBruta.linhas) > 2
    /\ tabelaFinal.indices = <<1, 2>>

\* the entity the last operation was on, as it is now
Alvo == entidades[ultimaOp.alvo]

\* C17: a delete operation on a bill (the delete command of the entity or the
\* delete of its repository) leaves it with deleted_at set to a timestamp and
\* with the id, created_at, updated_at, reference and amount it had, and its
\* row stays in the store; a bill just created has updated_at and deleted_at
\* None
C17ExclusaoLogica ==
    /\ (ultimaOp.op \in {"deletar", "repositorio.delete"} /\ Alvo.classe \in ClassesDeConta) =>
            /\ Alvo.deleted_at >= 1
            /\ Alvo.id = ultimaOp.antes.id
            /\ Alvo.created_at = ultimaOp.antes.created_at
            /\ Alvo.updated_at = ultimaOp.antes.updated_at
            /\ Alvo.campos = ultimaOp.antes.campos
            /\ ultimaOp.naSessao => ultimaOp.alvo \in sessao
    /\ (ultimaOp.op = "criar" /\ Alvo.classe \in ClassesDeConta) =>
            /\ Alvo.updated_at = None
            /\ Alvo.deleted_at = None

\* C18: updated_at is None on creation; an update or patch that changed a
\* field leaves updated_at set, and no update or patch moves it backwards; a
\* patch without any field leaves the entity as it was
C18AtualizadoEm ==
    /\ ultimaOp.op = "criar" => Alvo.updated_at = None
    /\ ultimaOp.op \in {"atualizar", "patch"} =>
            /\ Alvo.campos # ultimaOp.antes.campos => Alvo.updated_at >= 1
            /\ Alvo.updated_at >= ultimaOp.antes.updated_at
    /\ (ultimaOp.op = "patch" /\ ultimaOp.semCampos) => Alvo = ultimaOp.antes

\* the positions in the log of the events of one kind on one file
Quando(tipo, arquivo) ==
    {i \in 1..Len(eventos) : eventos[i] = Evento(tipo, arquivo)}

\* the temporary files the request created
Criados == {eventos[i].arquivo : i \in {j \in 1..Len(eventos) : eventos[j].tipo = "criar"}}

\* C19: once the request is answered, every temporary file it created was
\* created before the sync call started and had a delete attempted after the
\* sync call ended, whether the sync succeeded, failed, or the writing of a
\* later upload failed; and when the sync returned its summary the answer is
\* 200 whatever the deletes did
C19CicloDosTemporarios ==
    etapa = "respondido" =>
        /\ \A f \in Criados :
                /\ \A c \in Quando("criar", f) : \A s \in Quando("sync_inicio", 0) : c < s
                /\ \E u \in Quando("unlink", f) : \A s \in Quando("sync_fim", 0) : s < u
        /\ resultadoSync = "resumo" => resposta = 200

\* the rows of the data, out of the given ones, whose text in the columns cs
\* matches the composite pattern
LinhasQueCasam(cs) ==
    {l \in 1..Len(DadosBrutos) :
        CasaComposta(TextoNormalizado(TextoDaCandidata(DadosBrutos[l], cs)))}

\* the candidates the recovery may consider for n columns
CandidatasPermitidas(n) ==
    {<<j>> : j \in 1..n}
        \cup (IF n >= 2 THEN {<<1, 2>>} ELSE {})
        \cup (IF n >= 3 THEN {<<1, 2, 3>>} ELSE {})

\* the columns of the data that are not consumed, in order
ColunasMantidas ==
    SelectSeq([j \in 1..Len(RotulosBrutos) |-> j],
              LAMBDA j : \A k \in 1..Len(tabelaFinal.consumidas) : tabelaFinal.consumidas[k] # j)

\* the data rows that reach the output: those that match in the consumed
\* columns, or all of them when none matches
LinhasQueFicam ==
    SelectSeq([l \in 1..Len(DadosBrutos) |-> l],
              LAMBDA l : LinhasQueCasam(tabelaFinal.consumidas) = {}
                            \/ l \in LinhasQueCasam(tabelaFinal.consumidas))

\* C21: the consumed columns are those of one of the permitted candidates, of
\* greatest score, and of fewest columns among the candidates of that score;
\* in the output every other column follows the three recovered fields, with
\* the cells it had in the rows that are kept (the cells of "Valor Total"
\* cleaned)
C21ColunaCompostaEscolhida ==
    (tabelaFinal.feito /\ tabelaFinal.consumidas # <<>>) =>
        /\ tabelaFinal.consumidas \in CandidatasPermitidas(Len(RotulosBrutos))
        /\ \A c \in CandidatasPermitidas(Len(RotulosBrutos)) :
                /\ Cardinality(LinhasQueCasam(c)) <= Cardinality(LinhasQueCasam(tabelaFinal.consumidas))
                /\ Cardinality(LinhasQueCasam(c)) = Cardinality(LinhasQueCasam(tabelaFinal.consumidas))
                        => Len(tabelaFinal.consumidas) <= Len(c)
        /\ tabelaFinal.r.ok =>
                /\ Len(tabelaFinal.r.colunas) = 3 + Len(ColunasMantidas)
                /\ Len(tabelaFinal.r.linhas) = Len(LinhasQueFicam)
                /\ \A p \in 1..Len(ColunasMantidas) : \A q \in 1..Len(LinhasQueFicam) :
                        \/ tabelaFinal.r.colunas[3 + p] = RotuloValorTotal
                        \/ tabelaFinal.r.linhas[q][3 + p]
                                = DadosBrutos[LinhasQueFicam[q]][ColunasMantidas[p]]

\* two candidates tie at the greatest score, the one of one column is
\* consumed and the other three columns are in the output
C21Witness ==
    /\ tabelaFinal.feito
    /\ tabelaFinal.r.ok
    /\ Len(tabelaFinal.consumidas) = 1
    /\ Cardinality(LinhasQueCasam(<<1, 2>>)) = Cardinality(LinhasQueCasam(tabelaFinal.consumidas))
    /\ Cardinality(LinhasQueCasam(<<1, 2>>)) >= 1
    /\ Len(tabelaFinal.r.colunas) = 6

\* a text that is one amount of the Brazilian currency pattern: one to three
\* digits, groups of a dot and three digits, a comma and two digits
EhMoedaTexto(s) ==
    \E a \in 1..3, g \in 0..Len(s) :
        /\ Len(s) = a + 4 * g + 3
        /\ AllDigits(SubSeq(s, 1, a))
        /\ \A k \in 0..(g - 1) :
              s[a + 4 * k + 1] = "." /\ AllDigits(SubSeq(s, a + 4 * k + 2, a + 4 * k + 4))
        /\ s[a + 4 * g + 1] = ","
        /\ AllDigits(SubSeq(s, a + 4 * g + 2, a + 4 * g + 3))

\* the places <<i, j>> of a text where an amount stands
LugaresDeMoeda(t) ==
    {par \in (1..Len(t)) \X (1..Len(t)) :
        par[1] <= par[2] /\ EhMoedaTexto(SubSeq(t, par[1], par[2]))}

\* the table whose row is read, the amount column and the selected row
TabelaLida == DropNaColunas(tabelaSamae)

ColunaLida == DetectarColunaValor(TabelaLida)

LinhaLida == TabelaLida.linhas[SelecionarLinhaAtual(TabelaLida).indice]

\* the amount is asked of a row: the column is detected, the row is selected
\* and its reference is read
ValorPedido ==
    /\ linhaAtual.feito
    /\ ColunaLida > 0
    /\ SelecionarLinhaAtual(TabelaLida).ok
    /\ ExtrairReferencia(LinhaLida).ok

CelulaAparada == Strip(AsStr(LinhaLida[ColunaLida]))

CelulaEmBranco == CelulaAparada = <<>> \/ CelulaAparada = <<"n", "a", "n">>

TextoDaLinhaLida == Join([j \in 1..Len(LinhaLida) |-> AsStr(LinhaLida[j])], <<" ">>)

\* C22: the amount is the trimmed cell of the amount column of the selected
\* row; when that cell is blank or 'nan' the amount is the first match of the
\* currency pattern in the text of the whole row; the extraction fails with
\* the amount-not-found error exactly when the cell is blank or 'nan' and
\* the text of the row has no match
C22ValorDaLinha ==
    ValorPedido =>
        /\ ~CelulaEmBranco => linhaAtual.r.ok /\ linhaAtual.r.valor = CelulaAparada
        /\ (CelulaEmBranco /\ LugaresDeMoeda(TextoDaLinhaLida) # {}) =>
              /\ linhaAtual.r.ok
              /\ \E par \in LugaresDeMoeda(TextoDaLinhaLida) :
                    /\ \A q \in LugaresDeMoeda(TextoDaLinhaLida) : par[1] <= q[1]
                    /\ linhaAtual.r.valor = SubSeq(TextoDaLinhaLida, par[1], par[2])
        /\ (linhaAtual.r = ValueErrorCom("valor atual")) <=>
              (CelulaEmBranco /\ LugaresDeMoeda(TextoDaLinhaLida) = {})

\* the trimmed cell, the amount found in the row and the failure all happen
C22Witness ==
    /\ ValorPedido
    /\ CelulaEmBranco
    /\ linhaAtual.r.ok
    /\ linhaAtual.r.valor = <<"7", ",", "5", "0">>
    /\ Len(TabelaLida.colunas) = 2

\* no table of the PDF has a row with one of the history keywords
NenhumaTabelaDeHistorico ==
    \A i \in 1..Len(tabelasPdf) :
        ~TabelaQualifica(tabelasPdf[i], PalavrasChaveHistoricoConsumo, TRUE, FALSE)

\* the number of cells of the last column of t in which an amount stands
CelulasDeMoeda(t) ==
    Cardinality({l \in 1..Len(t.linhas) :
                    LugaresDeMoeda(AsStr(t.linhas[l][Len(t.colunas)])) # {}})

\* a header name of t is an amount header
TemRotuloDeValor(t) ==
    \E j \in 1..Len(t.colunas) : RotuloDeValor(ChaveNormalizada(t.colunas[j]))

\* the tables with an amount column: by a header name, or with more than 30%
\* of the cells of the last column holding an amount
ComColunaDeValor ==
    {i \in 1..Len(tabelasPdf) :
        /\ tabelasPdf[i].colunas # <<>>
        /\ \/ TemRotuloDeValor(tabelasPdf[i])
           \/ 10 * CelulasDeMoeda(tabelasPdf[i]) > 3 * Len(tabelasPdf[i].linhas)}

\* the same with at least 30% of the cells
ComColunaDeValorDesde30 ==
    {i \in 1..Len(tabelasPdf) :
        /\ tabelasPdf[i].colunas # <<>>
        /\ \/ TemRotuloDeValor(tabelasPdf[i])
           \/ /\ tabelasPdf[i].linhas # <<>>
              /\ 10 * CelulasDeMoeda(tabelasPdf[i]) >= 3 * Len(tabelasPdf[i].linhas)}

\* the tables without any column
SemColunas == {i \in 1..Len(tabelasPdf) : tabelasPdf[i].colunas = <<>>}

C24AtualizarTudoOuNada ==
    (/\ ultimaOp.op = "atualizar"
     /\ Alvo.classe \in ClassesDeConta
     /\ ultimaOp.exc = "ValueError") =>
        /\ Alvo.campos = ultimaOp.antes.campos
        /\ Alvo.updated_at = ultimaOp.antes.updated_at

\* the rows of a table that are not soft-deleted
Vivas(tabela) == {i \in 1..Len(tabela) : tabela[i].deleted_at = <<>>}

\* at most one row not soft-deleted per reference
UmaVivaPorReferencia(tabela) ==
    \A i, j \in Vivas(tabela) :
        ReferenciaDe(servico, tabela[i]) = ReferenciaDe(servico, tabela[j]) => i = j

\* C25: sync runs that each commit before the next one starts keep the store
\* with at most one row not soft-deleted per reference, and no step of a sync
\* changes the reference or the amount of a row that was in the store
C25UnicidadeEmSequencia ==
    [][UmaVivaPorReferencia(loja) =>
            /\ UmaVivaPorReferencia(loja')
            /\ Len(loja') >= Len(loja)
            /\ \A i \in 1..Len(loja) :
                  /\ loja'[i].id = loja[i].id
                  /\ loja'[i].referencia = loja[i].referencia
                  /\ loja'[i].valor = loja[i].valor]_vars

\* two runs were committed one after the other, each adding a row, the second
\* one over a document that also carries the reference the first one stored
C25Witness ==
    /\ servico = "luz"
    /\ rodadas = 2
    /\ pc = "ocioso"
    /\ desfecho = "commit"
    /\ Len(loja) = 3
    /\ Len(lojaAntes) = 2
    /\ loja[1].deleted_at # <<>>
    /\ Vivas(loja) = {2, 3}
    /\ UmaVivaPorReferencia(loja)

\* C26: when two sync requests over documents with a common reference run
\* concurrently, each in its own session, no interleaving leaves two rows not
\* soft-deleted with the same reference in the store
C26UnicidadeConcorrente ==
    \A i, j \in Vivas(tabelaConc) :
        ReferenciaDe(servicoConc, tabelaConc[i]) = ReferenciaDe(servicoConc, tabelaConc[j])
            => i = j

\* the references of the rows of a table that are not soft-deleted
ReferenciasVivas(tabela) == {ReferenciaDe(servico, tabela[i]) : i \in Vivas(tabela)}

\* C27: list_existing_references returns only the references of the rows
\* whose deleted_at is unset, so a run over a document carrying the reference
\* of a soft-deleted row creates a new row for it, counted in created, and
\* the soft-deleted row stays in the store
C27ApagadasNaoContam ==
    /\ pc \in {"extrair", "retornou"} => existentes = ReferenciasVivas(loja)
    /\ pc = "retornou" =>
          /\ \A k \in ChavesColetadas \ ReferenciasVivas(loja) :
                /\ \E i \in 1..Len(resumo.created_references) :
                      resumo.created_references[i] = k
                /\ \E i \in 1..Len(fila) :
                      ReferenciaDe(servico, fila[i]) = k /\ fila[i].deleted_at = <<>>
          /\ resumo.created = Cardinality(ChavesColetadas \ ReferenciasVivas(loja))
    /\ (pc = "ocioso" /\ desfecho = "commit") =>
          /\ Len(loja) >= Len(lojaAntes)
          /\ \A i \in 1..Len(lojaAntes) : loja[i] = lojaAntes[i]

\* a committed run left a new row beside the soft-deleted row of its reference
C27Witness ==
    /\ pc = "ocioso"
    /\ desfecho = "commit"
    /\ rodadas = 1
    /\ Len(loja) > Len(lojaAntes)
    /\ \E i \in 1..Len(lojaAntes) : \E j \in (Len(lojaAntes) + 1)..Len(loja) :
          /\ loja[i].deleted_at # <<>>
          /\ loja[j].deleted_at = <<>>
          /\ ReferenciaDe(servico, loja[i]) = ReferenciaDe(servico, loja[j])

\* C28: for every accepted reference text, building the value object again
\* from its own canonical text succeeds and gives an equal value object (same
\* text, same month and year), and criar_de_data of the persisted date gives
\* back an equal value object
C28NormalizacaoIdempotente ==
    /\ (refVO.feito /\ refVO.r.ok) =>
          /\ ReferenciaMensal(refVO.r.referencia).ok
          /\ ReferenciaMensal(refVO.r.referencia) = refVO.r
    /\ (refVO.feito /\ refVO.r.ok /\ dataBanco.feito /\ dataBanco.r.ok) =>
          /\ CriarDeData(dataBanco.r.data).ok
          /\ CriarDeData(dataBanco.r.data) = refVO.r

\* the positions of the log of calls that hold a call of one kind
ChamadasDe(op) == {i \in 1..Len(chamadas) : chamadas[i].op = op}

\* C29: in one sync run list_existing_references is called exactly once,
\* before any document is extracted; add_many is called at most once, only
\* after every path of the batch has been processed, and never with an empty
\* collection; the run makes no other call that changes the store
C29OrdemDasChamadas ==
    /\ pc \in {"extrair", "retornou"} => Cardinality(ChamadasDe("list_existing_references")) = 1
    /\ Cardinality(ChamadasDe("list_existing_references")) <= 1
    /\ \A i \in ChamadasDe("extrair") : \E j \in ChamadasDe("list_existing_references") : j < i
    /\ Cardinality(ChamadasDe("add_many")) <= 1
    /\ \A i \in ChamadasDe("add_many") :
          /\ chamadas[i].n > 0
          /\ i = Len(chamadas)
          /\ \A k \in 1..Len(lote) : \E j \in ChamadasDe("extrair") : j < i /\ chamadas[j].n = k
    /\ \A i \in 1..Len(chamadas) :
          chamadas[i].op \in {"list_existing_references", "extrair", "add_many"}
    /\ pc # "ocioso" => loja = lojaAntes
    /\ (pc = "retornou" /\ ChamadasDe("add_many") = {}) => fila = <<>>

\* a run over two paths returned after its one add_many, made last
C29Witness ==
    /\ pc = "retornou"
    /\ Len(lote) = 2
    /\ Len(chamadas) = 4
    /\ chamadas[1].op = "list_existing_references"
    /\ chamadas[4].op = "add_many"
    /\ chamadas[4].n = Len(fila)
    /\ falhas # <<>>

\* the extraction results of the batch, in order
Extraidas == ContasProcessadas(Len(lote))

\* the positions of the extraction results where a reference not known
\* occurs for the first time
PrimeirasNovas ==
    {k \in 1..Len(Extraidas) :
        /\ ReferenciaDe(servico, Extraidas[k]) \notin existentes
        /\ \A j \in 1..(k - 1) :
              ReferenciaDe(servico, Extraidas[j]) # ReferenciaDe(servico, Extraidas[k])}

\* C30: the summary and the rows offered for persistence are a function of
\* the ordered extraction results and of the known references only:
\* created_references lists each new reference once, in the order of its
\* first occurrence in the batch, and the row offered for it is the last one
\* extracted with that reference, even when it comes from a later document
C30ResultadoDeterminado ==
    pc = "retornou" =>
        /\ Len(resumo.created_references) = Cardinality(PrimeirasNovas)
        /\ Len(fila) = Cardinality(PrimeirasNovas)
        /\ \A k \in PrimeirasNovas :
              \E i \in {Cardinality({j \in PrimeirasNovas : j <= k})} :
                  /\ resumo.created_references[i] = ReferenciaDe(servico, Extraidas[k])
                  /\ fila[i].referencia = Extraidas[k].referencia
                  /\ fila[i].valor =
                        UltimaCom(Extraidas, ReferenciaDe(servico, Extraidas[k])).valor
        /\ resumo.rows_parsed = Len(Extraidas)
        /\ resumo.distinct_references_found =
              Cardinality({ReferenciaDe(servico, Extraidas[k]) : k \in 1..Len(Extraidas)})
        /\ resumo.created = Cardinality(PrimeirasNovas)
        /\ resumo.skipped = resumo.distinct_references_found - resumo.created
        /\ resumo.failed_files = CaminhosComFalha(Len(lote))
        /\ resumo.pdf_count = Len(lote)
        /\ resumo.files_failed = Len(CaminhosComFalha(Len(lote)))
        /\ resumo.files_processed = Len(lote) - Len(CaminhosComFalha(Len(lote)))

\* two new references were listed in the order of their first occurrence, the
\* row offered for the first one coming from the second document
C30Witness ==
    /\ pc = "retornou"
    /\ Len(lote) = 2
    /\ Len(resumo.created_references) = 2
    /\ 1 \in PrimeirasNovas
    /\ resumo.created_references[1] = ReferenciaDe(servico, Extraidas[1])
    /\ fila[1].valor # Extraidas[1].valor
    /\ fila[1].valor = Extraidas[Len(Extraidas)].valor
    /\ Len(Extraidas) = 4

====
